---- MODULE Spec2Model ----
(***************************************************************************)
(* PrinterPal: a model of the request handlers of printerpal/web.py and of *)
(* the library functions they call (printer.py, imageproc.py, airprint.py, *)
(* util.py).  Worker threads of one server process run the handlers        *)
(* concurrently; every step of a handler that reads or writes shared state *)
(* (app.config, the AirPrint lock, the disk) is one action.                *)
(***************************************************************************)
EXTENDS Integers, Sequences, FiniteSets, TLC

\* ------------------------------------------------------------------ bounds

\* time.monotonic() is followed up to this many seconds
MaxNow == 601

\* the worker threads of the process (gunicorn --threads)
Threads == {"t1", "t2"}

\* the spans of time that pass between two steps
TickSteps == {600, 601}

\* ------------------------------------------------------- strings and None

\* A Python str is a sequence of characters; None is a value no str equals.
None == <<"<None>">>

Falsy(v) == v = None \/ v = <<>>

\* x or y
PyOr(x, y) == IF Falsy(x) THEN y ELSE x

IsSpace(c) == c \in {" ", "\n", "\t"}

RECURSIVE LStrip(_)
LStrip(s) == IF s # <<>> /\ IsSpace(Head(s)) THEN LStrip(Tail(s)) ELSE s

RECURSIVE RStrip(_)
RStrip(s) ==
    IF s # <<>> /\ IsSpace(s[Len(s)]) THEN RStrip(SubSeq(s, 1, Len(s) - 1)) ELSE s

\* str.strip()
Strip(s) == RStrip(LStrip(s))

\* --------------------------------------------------------- printer names

\* the printer names CUPS may report, in the order sorted() puts them
NameOrder == <<"brother", "hp">>

PrinterNames == {NameOrder[i] : i \in 1..Len(NameOrder)}

\* the printer sets CUPS goes through
PrinterSets == {{}, {"hp", "brother"}}

RECURSIVE JoinFrom(_, _, _)
JoinFrom(names, i, acc) ==
    IF i > Len(NameOrder) THEN acc
    ELSE IF NameOrder[i] \in names
         THEN JoinFrom(names, i + 1,
                       IF acc = "" THEN NameOrder[i] ELSE acc \o "," \o NameOrder[i])
         ELSE JoinFrom(names, i + 1, acc)

\* ",".join(sorted([p.get("name", "") for p in printers if p.get("name")]))
SignatureOf(names) == JoinFrom(names, 1, "")

\* ------------------------------------------------------------ configuration

\* the seconds after which the ensure is repeated for an unchanged printer set
EnsurePeriod == 600

\* tokens that occur in configurations and requests
CfgTokens == {<<>>, <<"a">>, <<" ", "a">>, <<" ">>}
ReqTokens == {None, <<>>, <<"a">>, <<" ", "a">>, <<"b">>}

\* _default_config(), the fields the handlers modelled here read
DefaultConfig ==
    [auto_enable |-> TRUE, require_token |-> FALSE, token |-> <<>>, max_upload_mb |-> 25,
     default_mode |-> "grayscale", default_copies |-> 1, max_pdf_pages_process |-> 30]

\* _as_int(v, min_v, max_v): the range check
AsIntOk(v, min_v, max_v) == v >= min_v /\ v <= max_v

\* the modes apply_mode knows
SupportedModes == {"raw", "grayscale", "bw", "dither", "outline"}

\* validate_config: TRUE when no PrinterPalError is raised
ValidConfig(c) ==
    /\ AsIntOk(c.max_upload_mb, 1, 500)
    /\ AsIntOk(c.max_pdf_pages_process, 1, 500)
    /\ AsIntOk(c.default_copies, 1, 99)
    /\ c.default_mode \in SupportedModes

\* the bodies POST /api/config is sent
CfgPayloads ==
    { [auto_enable |-> FALSE],
      [max_upload_mb |-> 25],
      [max_upload_mb |-> 0] }

\* ------------------------------------------------------------------- auth

\* the configured token compared as it is written
RequireTokenNoStrip(sec_require, sec_token, header, query) ==
    IF ~sec_require THEN "run"
    ELSE IF Falsy(sec_token) THEN "503"
    ELSE IF PyOr(header, query) # sec_token THEN "401"
    ELSE "run"

\* _require_token.wrapper: "run" when fn(*args, **kwargs) is called, else the
\* status abort() answers
RequireToken(sec_require, sec_token, header, query) ==
    IF ~sec_require THEN "run"
    ELSE LET expected == Strip(PyOr(sec_token, <<>>))
             provided == PyOr(header, query)
         IN  IF expected = <<>> THEN "503"
             ELSE IF provided # expected THEN "401"
             ELSE "run"

\* ------------------------------------------------------------------ state

VARIABLES
    cfg,          \* app.config["PP_CFG"]
    cfgFile,      \* the configuration file ConfigStore reads and writes
    max_content,  \* app.config["MAX_CONTENT_LENGTH"]
    last_ensure,  \* app.config["PP_AIRPRINT_LAST_ENSURE"]
    last_sig,     \* app.config["PP_AIRPRINT_LAST_SIG"]
    lock,         \* app.config["PP_AIRPRINT_LOCK"]: "free" or the thread holding it
    clock,        \* time.monotonic()
    printers,     \* the printers lpstat -p reports
    inflight,     \* the threads inside ensure_airprint_via_root_helper
    pc,           \* each thread's position
    req,          \* the request a thread serves
    resp,         \* the answer to the thread's last finished request (or event)
    sig,          \* api_status: sig
    now,          \* api_status: now
    last_t,       \* api_status: last_t
    skipped,      \* api_status: lock.acquire(blocking=False) returned False
    ensured,      \* api_status: how the ensure it called ended ("none" before)
    cfg_new       \* api_config_set: cfg_new, then cfg

sharedVars == <<cfg, cfgFile, max_content, last_ensure, last_sig, lock, inflight>>
envVars == <<clock, printers>>
statusLocals == <<sig, now, last_t, skipped, ensured>>
airRest == <<sharedVars, envVars, statusLocals, cfg_new>>
airVars == <<airRest, pc, req, resp>>

Free == "free"

\* validate_config: merge the payload over the defaults
ValidateConfig(c) ==
    [k \in DOMAIN DefaultConfig |-> IF k \in DOMAIN c THEN c[k] ELSE DefaultConfig[k]]

\* int(cfg["app"]["max_upload_mb"]) * 1024 * 1024
MaxContentLength(c) == c.max_upload_mb * 1024 * 1024

\* create_app: the configuration c is loaded from the file
InitAir(c) ==
    /\ cfg = c
    /\ cfgFile = c
    /\ max_content = MaxContentLength(c)
    /\ last_ensure = 0
    /\ last_sig = ""
    /\ lock = Free
    /\ clock = 0
    /\ printers = {}
    /\ inflight = {}
    /\ pc = [t \in Threads |-> "idle"]
    /\ req = [t \in Threads |-> "none"]
    /\ resp = [t \in Threads |-> "none"]
    /\ sig = [t \in Threads |-> ""]
    /\ now = [t \in Threads |-> 0]
    /\ last_t = [t \in Threads |-> 0]
    /\ skipped = [t \in Threads |-> FALSE]
    /\ ensured = [t \in Threads |-> "none"]
    /\ cfg_new = [t \in Threads |-> DefaultConfig]

\* the locals of a finished request are dropped
ClearStatusLocals(t) ==
    /\ sig' = [sig EXCEPT ![t] = ""]
    /\ now' = [now EXCEPT ![t] = 0]
    /\ last_t' = [last_t EXCEPT ![t] = 0]
    /\ skipped' = [skipped EXCEPT ![t] = FALSE]
    /\ ensured' = [ensured EXCEPT ![t] = "none"]

\* ------------------------------------------------------------ environment

\* time passes
Tick ==
    /\ \E d \in TickSteps : clock + d <= MaxNow /\ clock' = clock + d
    /\ UNCHANGED <<sharedVars, printers, pc, req, resp, statusLocals, cfg_new>>

\* a printer is added to or removed from CUPS
PrintersChange ==
    /\ \E S \in PrinterSets : S # printers /\ printers' = S
    /\ UNCHANGED <<sharedVars, clock, pc, req, resp, statusLocals, cfg_new>>

\* --------------------------------------------------------- GET /api/status

\* the request arrives
StatusStart(t) ==
    /\ pc[t] = "idle"
    /\ pc' = [pc EXCEPT ![t] = "st_begin"]
    /\ req' = [req EXCEPT ![t] = "status"]
    /\ resp' = [resp EXCEPT ![t] = "none"]
    /\ skipped' = [skipped EXCEPT ![t] = FALSE]
    /\ UNCHANGED <<sharedVars, envVars, sig, now, last_t, ensured, cfg_new>>

\* the exception of a status computation ending the generator of the stream
StatusRaiseEnds(t) ==
    /\ pc' = [pc EXCEPT ![t] = "idle"]
    /\ req' = [req EXCEPT ![t] = "none"]
    /\ resp' = [resp EXCEPT ![t] = "500"]
    /\ ClearStatusLocals(t)

\* a status computation that raised: the error handler answers 500, the event
\* stream yields an error event
StatusRaise(t) ==
    /\ pc' = [pc EXCEPT ![t] = IF req[t] = "events" THEN "ev_sleep" ELSE "idle"]
    /\ req' = [req EXCEPT ![t] = IF req[t] = "events" THEN "events" ELSE "none"]
    /\ resp' = [resp EXCEPT ![t] = IF req[t] = "events" THEN "event:error" ELSE "500"]
    /\ ClearStatusLocals(t)

\* lines 194-209: the printer list and the job queries (a query that times out
\* raises PrinterPalError), then: if auto_airprint and cups_available(): sig, now
StatusBegin(t) ==
    /\ pc[t] = "st_begin"
    /\ \E listed \in {"up", "down", "raise"}, cups \in BOOLEAN :
        IF listed = "raise"
        THEN StatusRaise(t)
        ELSE IF cfg.auto_enable /\ cups
        THEN /\ sig' = [sig EXCEPT ![t] =
                            SignatureOf(IF listed = "up" THEN printers ELSE {})]
             /\ now' = [now EXCEPT ![t] = clock]
             /\ pc' = [pc EXCEPT ![t] = "st_read_t"]
             /\ UNCHANGED <<req, resp, last_t, skipped, ensured>>
        ELSE /\ pc' = [pc EXCEPT ![t] = "st_respond"]
             /\ UNCHANGED <<req, resp, statusLocals>>
    /\ UNCHANGED <<sharedVars, envVars, cfg_new>>

\* line 210: last_t = app.config.get("PP_AIRPRINT_LAST_ENSURE")
StatusReadLast(t) ==
    /\ pc[t] = "st_read_t"
    /\ last_t' = [last_t EXCEPT ![t] = last_ensure]
    /\ pc' = [pc EXCEPT ![t] = "st_read_sig"]
    /\ UNCHANGED <<sharedVars, envVars, req, resp, sig, now, skipped, ensured, cfg_new>>

\* line 213: the ensure is due
RateLimit(s, recorded_sig, n, recorded_t) ==
    s # recorded_sig \/ (n - recorded_t) > EnsurePeriod

\* lines 211-213: last_sig is read and the condition decided
StatusDecide(t) ==
    /\ pc[t] = "st_read_sig"
    /\ pc' = [pc EXCEPT ![t] =
                IF RateLimit(sig[t], last_sig, now[t], last_t[t])
                THEN "st_lock" ELSE "st_respond"]
    /\ last_t' = [last_t EXCEPT ![t] = 0]
    /\ UNCHANGED <<sharedVars, envVars, req, resp, sig, now, skipped, ensured, cfg_new>>

\* the return value ignored: the lock is taken over from its holder
TryAcquireSteal(l, t) == t

\* lock.acquire(blocking=False): the holder afterwards, or "busy"
TryAcquire(l, t) == IF l = Free THEN t ELSE "busy"

\* line 215
StatusTryLock(t) ==
    /\ pc[t] = "st_lock"
    /\ IF TryAcquire(lock, t) = t
       THEN /\ lock' = t
            /\ pc' = [pc EXCEPT ![t] = "ens_call"]
            /\ UNCHANGED skipped
       ELSE /\ skipped' = [skipped EXCEPT ![t] = TRUE]
            /\ pc' = [pc EXCEPT ![t] = "st_respond"]
            /\ UNCHANGED lock
    /\ UNCHANGED <<cfg, cfgFile, max_content, last_ensure, last_sig, inflight,
                   envVars, req, resp, sig, now, last_t, ensured, cfg_new>>

\* line 218
StatusRecordTime(t) ==
    /\ pc[t] = "st_rec_t"
    /\ last_ensure' = now[t]
    /\ pc' = [pc EXCEPT ![t] = "st_rec_sig"]
    /\ UNCHANGED <<cfg, cfgFile, max_content, last_sig, lock, inflight,
                   envVars, req, resp, statusLocals, cfg_new>>

\* line 219
StatusRecordSig(t) ==
    /\ pc[t] = "st_rec_sig"
    /\ last_sig' = sig[t]
    /\ pc' = [pc EXCEPT ![t] = "st_release"]
    /\ UNCHANGED <<cfg, cfgFile, max_content, last_ensure, lock, inflight,
                   envVars, req, resp, statusLocals, cfg_new>>

\* lines 220-224: finally: lock.release(); an exception of the ensure is passed
StatusRelease(t) ==
    /\ pc[t] = "st_release"
    /\ lock' = Free
    /\ pc' = [pc EXCEPT ![t] = "st_respond"]
    /\ UNCHANGED <<cfg, cfgFile, max_content, last_ensure, last_sig, inflight,
                   envVars, req, resp, statusLocals, cfg_new>>

\* lines 226-238: the snapshot is returned (to the client, or to the event stream)
StatusRespond(t) ==
    /\ pc[t] = "st_respond"
    /\ pc' = [pc EXCEPT ![t] = IF req[t] = "events" THEN "ev_sleep" ELSE "idle"]
    /\ req' = [req EXCEPT ![t] = IF req[t] = "events" THEN "events" ELSE "none"]
    /\ resp' = [resp EXCEPT ![t] = IF req[t] = "events" THEN "event:status" ELSE "200"]
    /\ ClearStatusLocals(t)
    /\ UNCHANGED <<sharedVars, envVars, cfg_new>>

\* ------------------------------------------------------------ GET /events

\* the stream is opened; gen() starts its first cycle
EventsStart(t) ==
    /\ pc[t] = "idle"
    /\ pc' = [pc EXCEPT ![t] = "st_begin"]
    /\ req' = [req EXCEPT ![t] = "events"]
    /\ resp' = [resp EXCEPT ![t] = "none"]
    /\ skipped' = [skipped EXCEPT ![t] = FALSE]
    /\ UNCHANGED <<sharedVars, envVars, sig, now, last_t, ensured, cfg_new>>

\* the event has been sent; time.sleep(2.0), then the next cycle calls
\* api_status() again
EventsSleep(t) ==
    /\ pc[t] = "ev_sleep"
    /\ pc' = [pc EXCEPT ![t] = "st_begin"]
    /\ resp' = [resp EXCEPT ![t] = "none"]
    /\ skipped' = [skipped EXCEPT ![t] = FALSE]
    /\ UNCHANGED <<sharedVars, envVars, req, sig, now, last_t, ensured, cfg_new>>

\* the client closes the connection
EventsClose(t) ==
    /\ pc[t] = "ev_sleep"
    /\ pc' = [pc EXCEPT ![t] = "idle"]
    /\ req' = [req EXCEPT ![t] = "none"]
    /\ UNCHANGED <<sharedVars, envVars, resp, statusLocals, cfg_new>>

\* ---------------------------------------- ensure_airprint_via_root_helper

\* the time and the signature recorded whether or not the ensure raised
AfterEnsureRecords(t, ok) ==
    IF req[t] \in {"status", "events"}
    THEN /\ pc' = [pc EXCEPT ![t] = "st_rec_t"]
         /\ ensured' = [ensured EXCEPT ![t] = IF ok THEN "ok" ELSE "raised"]
         /\ UNCHANGED <<req, resp>>
    ELSE /\ pc' = [pc EXCEPT ![t] = "idle"]
         /\ req' = [req EXCEPT ![t] = "none"]
         /\ resp' = [resp EXCEPT ![t] = IF ok THEN "200" ELSE "500"]
         /\ UNCHANGED ensured

\* the lock released after the two records only, without try/finally
AfterEnsureNoFinally(t, ok) ==
    IF req[t] \in {"status", "events"}
    THEN /\ pc' = [pc EXCEPT ![t] = IF ok THEN "st_rec_t" ELSE "st_respond"]
         /\ ensured' = [ensured EXCEPT ![t] = IF ok THEN "ok" ELSE "raised"]
         /\ UNCHANGED <<req, resp>>
    ELSE /\ pc' = [pc EXCEPT ![t] = "idle"]
         /\ req' = [req EXCEPT ![t] = "none"]
         /\ resp' = [resp EXCEPT ![t] = IF ok THEN "200" ELSE "500"]
         /\ UNCHANGED ensured

\* where a handler goes on after the ensure returned (ok) or raised
AfterEnsure(t, ok) ==
    IF req[t] \in {"status", "events"}
    THEN /\ pc' = [pc EXCEPT ![t] = IF ok THEN "st_rec_t" ELSE "st_release"]
         /\ ensured' = [ensured EXCEPT ![t] = IF ok THEN "ok" ELSE "raised"]
         /\ UNCHANGED <<req, resp>>
    ELSE \* api_airprint_ensure, api_config_set: 200, or 500 with the error
         /\ pc' = [pc EXCEPT ![t] = "idle"]
         /\ req' = [req EXCEPT ![t] = "none"]
         /\ resp' = [resp EXCEPT ![t] = IF ok THEN "200" ELSE "500"]
         /\ UNCHANGED ensured

\* the function is entered
EnsureCall(t) ==
    /\ pc[t] = "ens_call"
    /\ inflight' = inflight \cup {t}
    /\ pc' = [pc EXCEPT ![t] = "ens_run"]
    /\ UNCHANGED <<cfg, cfgFile, max_content, last_ensure, last_sig, lock,
                   envVars, req, resp, statusLocals, cfg_new>>

\* it returns {"ok": True, ...}, or raises: the helper is missing, sudo exits
\* non-zero, or the command times out
EnsureReturn(t) ==
    /\ pc[t] = "ens_run"
    /\ inflight' = inflight \ {t}
    /\ \E ok \in BOOLEAN : AfterEnsure(t, ok)
    /\ UNCHANGED <<cfg, cfgFile, max_content, last_ensure, last_sig, lock,
                   envVars, sig, now, last_t, skipped, cfg_new>>

\* ------------------------------------------------ POST /api/airprint/ensure

\* @require_token, then the handler calls the ensure without the lock
AirprintEnsureStart(t) ==
    /\ pc[t] = "idle"
    /\ \E header \in ReqTokens, query \in ReqTokens :
        LET a == RequireToken(cfg.require_token, cfg.token, header, query)
        IN  IF a = "run"
            THEN /\ pc' = [pc EXCEPT ![t] = "ens_call"]
                 /\ req' = [req EXCEPT ![t] = "ensure"]
                 /\ resp' = [resp EXCEPT ![t] = "none"]
            ELSE /\ UNCHANGED <<pc, req>>
                 /\ resp' = [resp EXCEPT ![t] = a]
    /\ UNCHANGED <<sharedVars, envVars, statusLocals, cfg_new>>

\* ------------------------------------------------------- POST /api/config

\* @require_token, then lines 251-257: the body is taken
ConfigStart(t, bodies) ==
    /\ pc[t] = "idle"
    /\ \E header \in ReqTokens, query \in ReqTokens, body \in bodies :
        LET a == RequireToken(cfg.require_token, cfg.token, header, query)
        IN  IF a = "run"
            THEN /\ pc' = [pc EXCEPT ![t] = "cf_save"]
                 /\ req' = [req EXCEPT ![t] = "config"]
                 /\ resp' = [resp EXCEPT ![t] = "none"]
                 /\ cfg_new' = [cfg_new EXCEPT ![t] = body]
            ELSE /\ UNCHANGED <<pc, req, cfg_new>>
                 /\ resp' = [resp EXCEPT ![t] = a]
    /\ UNCHANGED <<sharedVars, envVars, statusLocals>>

\* line 259: store.save(cfg_new); a PrinterPalError of validate_config is
\* answered 500 by handle_pp_error
ConfigSave(t) ==
    /\ pc[t] = "cf_save"
    /\ LET cfg2 == ValidateConfig(cfg_new[t])
       IN  IF ValidConfig(cfg2)
           THEN /\ cfgFile' = cfg2
                /\ pc' = [pc EXCEPT ![t] = "cf_load"]
                /\ UNCHANGED <<req, resp, cfg_new>>
           ELSE /\ pc' = [pc EXCEPT ![t] = "idle"]
                /\ req' = [req EXCEPT ![t] = "none"]
                /\ resp' = [resp EXCEPT ![t] = "500"]
                /\ cfg_new' = [cfg_new EXCEPT ![t] = DefaultConfig]
                /\ UNCHANGED cfgFile
    /\ UNCHANGED <<cfg, max_content, last_ensure, last_sig, lock, inflight,
                   envVars, statusLocals>>

\* line 260: cfg = store.load()
ConfigLoad(t) ==
    /\ pc[t] = "cf_load"
    /\ cfg_new' = [cfg_new EXCEPT ![t] = ValidateConfig(cfgFile)]
    /\ pc' = [pc EXCEPT ![t] = "cf_set"]
    /\ UNCHANGED <<sharedVars, envVars, req, resp, statusLocals>>

\* line 261: app.config["PP_CFG"] = cfg
ConfigSet(t) ==
    /\ pc[t] = "cf_set"
    /\ cfg' = cfg_new[t]
    /\ pc' = [pc EXCEPT ![t] = "cf_max"]
    /\ UNCHANGED <<cfgFile, max_content, last_ensure, last_sig, lock, inflight,
                   envVars, req, resp, statusLocals, cfg_new>>

\* lines 262-270: MAX_CONTENT_LENGTH, then the ensure when auto_enable is set
ConfigSetMax(t) ==
    /\ pc[t] = "cf_max"
    /\ max_content' = MaxContentLength(cfg_new[t])
    /\ IF cfg_new[t].auto_enable
       THEN /\ pc' = [pc EXCEPT ![t] = "ens_call"]
            /\ UNCHANGED <<req, resp>>
       ELSE /\ pc' = [pc EXCEPT ![t] = "idle"]
            /\ req' = [req EXCEPT ![t] = "none"]
            /\ resp' = [resp EXCEPT ![t] = "200"]
    /\ cfg_new' = [cfg_new EXCEPT ![t] = DefaultConfig]
    /\ UNCHANGED <<cfg, cfgFile, last_ensure, last_sig, lock, inflight,
                   envVars, statusLocals>>

\* ------------------------------------------------------- files and inputs

\* a PDF has at most this many pages
MaxPages == 3

\* a job id has at most this many characters
MaxIdLen == 2

\* the files of UPLOAD_DIR
Uploads == {"doc.pdf", "pic.png", "notes.txt"}

\* the names tempfile.mkstemp(prefix="printerpal_print_", suffix=".pdf") may pick
TempNames == {"printerpal_print_1.pdf", "printerpal_print_2.pdf"}

\* a file name no file has
Missing == "gone.pdf"

\* os.path.splitext(path)[1].lower()
ExtOf(path) ==
    CASE path \in {"doc.pdf", "gone.pdf"} \cup TempNames -> ".pdf"
      [] path = "pic.png" -> ".png"
      [] OTHER -> ".txt"

SUPPORTED_IMAGE_EXTS == {".png", ".jpg", ".jpeg", ".bmp", ".tif", ".tiff"}

\* the modes requests and callers pass; "" is an absent or empty mode
ModeInputs == SupportedModes \cup {"RAW", "foo", ""}

\* str.lower()
Lower(m) == IF m = "RAW" THEN "raw" ELSE m

\* the copies requests and callers pass; 0 is also an absent value in a request
CopiesInputs == {-1, 0, 1, 50, 99, 100}

\* max_pdf_pages as callers pass it
MaxPagesInputs == {1, 2}

\* the characters of job ids
IdChars == {"a", "7", "-", "\n", " ", ";"}

\* [A-Za-z0-9_.-]
SafeChar(c) == c \in {"a", "7", "-", "_", "."}

JobIds == UNION {[1..n -> IdChars] : n \in 0..MaxIdLen}

AllSafe(s) == \A i \in 1..Len(s) : SafeChar(s[i])

\* re.match(r"^[A-Za-z0-9_.-]+$", s): "$" matches at the end of the string and
\* also just before a newline that ends the string
ReMatchSafe(s) ==
    \/ Len(s) >= 1 /\ AllSafe(s)
    \/ Len(s) >= 2 /\ s[Len(s)] = "\n" /\ AllSafe(SubSeq(s, 1, Len(s) - 1))

\* the upper limit off by one
CopiesInRangeLow(c) == ~(c < 1 \/ c > 100)

\* print_file line 208, negated
CopiesInRange(c) == ~(c < 1 \/ c > 99)

\* apply_mode: TRUE when it returns an image, FALSE when it raises
\* "Unsupported mode"
ApplyModeOk(m) == Lower(m) \in SupportedModes

VARIABLES
    fs,            \* the files that exist on disk
    src,           \* prepare_print_file: src_path (api_print: path)
    mode,          \* prepare_print_file: mode
    copies,        \* print_file: copies
    maxp,          \* prepare_print_file: max_pdf_pages
    pages,         \* prepare_print_file: pages
    page_i,        \* prepare_print_file: p, the page of the loop
    outpath,       \* prepare_print_file: outpath
    prepared_path, \* the path prepare_print_file returned
    prepared,      \* meta["prepared"] of what it returned
    tmp_out,       \* api_print: tmp_out
    file_path,     \* print_file: file_path
    job_id,        \* cancel_job: job_id
    exc,           \* the exception that left the call, "none" when it returned
    cmds,          \* the commands run_cmd was called with by this request or call
    created,       \* the files mkstemp made for this request or call
    hdr,           \* request.headers.get("X-PrinterPal-Token")
    qry,           \* request.args.get("token")
    verdict        \* what _require_token's wrapper did with the request

printLocals == <<src, mode, copies, maxp, pages, page_i, outpath, prepared_path,
                 prepared, tmp_out, file_path, job_id, exc, cmds, created>>
printVars == <<fs, printLocals>>

authVars == <<hdr, qry, verdict>>


NoPath == ""

\* pages before pdf_page_count has returned
NoPages == -1

InitPrintLocals ==
    /\ src = [t \in Threads |-> NoPath]
    /\ mode = [t \in Threads |-> ""]
    /\ copies = [t \in Threads |-> 0]
    /\ maxp = [t \in Threads |-> 0]
    /\ pages = [t \in Threads |-> NoPages]
    /\ page_i = [t \in Threads |-> 0]
    /\ outpath = [t \in Threads |-> NoPath]
    /\ prepared_path = [t \in Threads |-> NoPath]
    /\ prepared = [t \in Threads |-> FALSE]
    /\ tmp_out = [t \in Threads |-> NoPath]
    /\ file_path = [t \in Threads |-> NoPath]
    /\ job_id = [t \in Threads |-> <<>>]
    /\ exc = [t \in Threads |-> "none"]
    /\ cmds = [t \in Threads |-> <<>>]
    /\ created = [t \in Threads |-> {}]

\* a call or request starts: its locals are fresh
FreshLocals(t, s, m, c, mp, f, j) ==
    /\ src' = [src EXCEPT ![t] = s]
    /\ mode' = [mode EXCEPT ![t] = m]
    /\ copies' = [copies EXCEPT ![t] = c]
    /\ maxp' = [maxp EXCEPT ![t] = mp]
    /\ file_path' = [file_path EXCEPT ![t] = f]
    /\ job_id' = [job_id EXCEPT ![t] = j]
    /\ pages' = [pages EXCEPT ![t] = NoPages]
    /\ page_i' = [page_i EXCEPT ![t] = 0]
    /\ outpath' = [outpath EXCEPT ![t] = NoPath]
    /\ prepared_path' = [prepared_path EXCEPT ![t] = NoPath]
    /\ prepared' = [prepared EXCEPT ![t] = FALSE]
    /\ tmp_out' = [tmp_out EXCEPT ![t] = NoPath]
    /\ exc' = [exc EXCEPT ![t] = "none"]
    /\ cmds' = [cmds EXCEPT ![t] = <<>>]
    /\ created' = [created EXCEPT ![t] = {}]

\* a function raises: api_print goes to its except/finally, a direct caller
\* sees the exception
Raise(t, kind) ==
    /\ exc' = [exc EXCEPT ![t] = kind]
    /\ pc' = [pc EXCEPT ![t] = IF req[t] = "print" THEN "pr_finally" ELSE "done"]

\* run_cmd(argv, check=True) is called: argv[0] is recorded, and the page for
\* pdftoppm -f page -l page
RunCmd(t, cmd, page) ==
    cmds' = [cmds EXCEPT ![t] = Append(cmds[t], [cmd |-> cmd, page |-> page])]

\* what run_cmd(check=True) does: it returns, or raises PrinterPalError (not
\* found, timed out) or CommandError (non-zero exit)
CmdOutcomes == {"ok", "PrinterPalError", "CommandError"}

\* PrinterPalError and its subclass CommandError
IsPrinterPalError(kind) == kind \in {"PrinterPalError", "CommandError"}

\* ----------------------------------------------------- prepare_print_file

\* api_print keeping the path in tmp_out whatever meta["prepared"] is
PrepReturnKept(t, path, prep) ==
    /\ prepared_path' = [prepared_path EXCEPT ![t] = path]
    /\ prepared' = [prepared EXCEPT ![t] = prep]
    /\ IF req[t] = "print"
       THEN /\ tmp_out' = [tmp_out EXCEPT ![t] = path]
            /\ file_path' = [file_path EXCEPT ![t] = path]
            /\ pc' = [pc EXCEPT ![t] = "pf_enter"]
       ELSE /\ pc' = [pc EXCEPT ![t] = "done"]
            /\ UNCHANGED <<tmp_out, file_path>>
    /\ UNCHANGED exc

\* it returns (path, meta); api_print lines 326-327 keep the path in tmp_out
\* when meta["prepared"], and pass it to print_file
PrepReturn(t, path, prep) ==
    /\ prepared_path' = [prepared_path EXCEPT ![t] = path]
    /\ prepared' = [prepared EXCEPT ![t] = prep]
    /\ IF req[t] = "print"
       THEN /\ tmp_out' = [tmp_out EXCEPT ![t] = IF prep THEN path ELSE NoPath]
            /\ file_path' = [file_path EXCEPT ![t] = path]
            /\ pc' = [pc EXCEPT ![t] = "pf_enter"]
       ELSE /\ pc' = [pc EXCEPT ![t] = "done"]
            /\ UNCHANGED <<tmp_out, file_path>>
    /\ UNCHANGED exc

\* lines 180-188, and the dispatch on the extension of lines 190, 213, 227
PrepEnter(t) ==
    /\ pc[t] = "pp_enter"
    /\ IF src[t] \notin fs
       THEN Raise(t, "PrinterPalError")
            /\ UNCHANGED <<prepared_path, prepared, tmp_out, file_path>>
       ELSE IF mode[t] = "raw"
       THEN PrepReturn(t, src[t], FALSE)
       ELSE IF ExtOf(src[t]) = ".pdf"
       THEN /\ pc' = [pc EXCEPT ![t] = "pp_pdfinfo"]
            /\ UNCHANGED <<prepared_path, prepared, tmp_out, file_path, exc>>
       ELSE IF ExtOf(src[t]) \in SUPPORTED_IMAGE_EXTS
       THEN /\ pc' = [pc EXCEPT ![t] = "pp_image"]
            /\ UNCHANGED <<prepared_path, prepared, tmp_out, file_path, exc>>
       ELSE Raise(t, "PrinterPalError")
            /\ UNCHANGED <<prepared_path, prepared, tmp_out, file_path>>
    /\ UNCHANGED <<airRest, req, resp, fs, src, mode, copies, maxp, pages, page_i,
                   outpath, job_id, cmds, created>>

\* the limit off by one
PagesExceedOff(n, limit) == n > limit + 1

\* line 193
PagesExceed(n, limit) == n > limit

\* lines 191-197: pdf_page_count runs pdfinfo; its output may lack a parseable
\* "Pages:" line
PrepPdfInfo(t) ==
    /\ pc[t] = "pp_pdfinfo"
    /\ IF src[t] \notin fs
       THEN Raise(t, "PrinterPalError") /\ UNCHANGED <<cmds, pages, page_i>>
       ELSE /\ RunCmd(t, "pdfinfo", 0)
            /\ \E out \in CmdOutcomes \cup {"unparseable"} :
                IF out # "ok"
                THEN /\ Raise(t, IF out = "unparseable" THEN "PrinterPalError" ELSE out)
                     /\ UNCHANGED <<pages, page_i>>
                ELSE \E n \in 0..MaxPages :
                     /\ pages' = [pages EXCEPT ![t] = n]
                     /\ IF PagesExceed(n, maxp[t])
                        THEN Raise(t, "PrinterPalError") /\ UNCHANGED page_i
                        ELSE /\ pc' = [pc EXCEPT ![t] =
                                        IF n >= 1 THEN "pp_raster" ELSE "pp_assemble"]
                             /\ page_i' = [page_i EXCEPT ![t] = IF n >= 1 THEN 1 ELSE 0]
                             /\ UNCHANGED exc
    /\ UNCHANGED <<airRest, req, resp, fs, src, mode, copies, maxp, outpath,
                   prepared_path, prepared, tmp_out, file_path, job_id, created>>

\* lines 200-203, one turn of the loop: _render_pdf_page_to_png runs pdftoppm
\* in a TemporaryDirectory that is gone when it returns or raises, then
\* apply_mode
PrepRaster(t) ==
    /\ pc[t] = "pp_raster"
    /\ RunCmd(t, "pdftoppm", page_i[t])
    /\ \E out \in CmdOutcomes \cup {"no png"} :
        IF out # "ok"
        THEN /\ Raise(t, IF out = "no png" THEN "PrinterPalError" ELSE out)
             /\ UNCHANGED page_i
        ELSE IF ~ApplyModeOk(mode[t])
        THEN Raise(t, "PrinterPalError") /\ UNCHANGED page_i
        ELSE /\ UNCHANGED exc
             /\ IF page_i[t] < pages[t]
                THEN /\ page_i' = [page_i EXCEPT ![t] = page_i[t] + 1]
                     /\ UNCHANGED pc
                ELSE /\ pc' = [pc EXCEPT ![t] = "pp_assemble"]
                     /\ UNCHANGED page_i
    /\ UNCHANGED <<airRest, req, resp, fs, src, mode, copies, maxp, pages, outpath,
                   prepared_path, prepared, tmp_out, file_path, job_id, created>>

\* a fixed name, whether or not a file has it
MkStempAny(t, name) ==
    /\ name \in TempNames
    /\ fs' = fs \cup {name}
    /\ outpath' = [outpath EXCEPT ![t] = name]
    /\ created' = [created EXCEPT ![t] = created[t] \cup {name}]
    /\ pc' = [pc EXCEPT ![t] = "pp_write"]
    /\ UNCHANGED exc

\* tempfile.mkstemp: a file under a name no file has
MkStemp(t, name) ==
    /\ name \in TempNames \ fs
    /\ fs' = fs \cup {name}
    /\ outpath' = [outpath EXCEPT ![t] = name]
    /\ created' = [created EXCEPT ![t] = created[t] \cup {name}]
    /\ pc' = [pc EXCEPT ![t] = "pp_write"]
    /\ UNCHANGED exc

\* lines 205-207: _images_to_pdf_bytes (both encoders fail on an empty list),
\* then mkstemp
PrepAssemble(t) ==
    /\ pc[t] = "pp_assemble"
    /\ IF pages[t] = 0
       THEN Raise(t, "IndexError") /\ UNCHANGED <<fs, outpath, created>>
       ELSE \/ \E name \in TempNames : MkStemp(t, name)
            \/ Raise(t, "OSError") /\ UNCHANGED <<fs, outpath, created>>
    /\ UNCHANGED <<airRest, req, resp, src, mode, copies, maxp, pages, page_i,
                   prepared_path, prepared, tmp_out, file_path, job_id, cmds>>

\* lines 213-221: an image is opened, filtered, encoded, then mkstemp
PrepImage(t) ==
    /\ pc[t] = "pp_image"
    /\ \/ \* _open_image raises
          Raise(t, "PrinterPalError") /\ UNCHANGED <<fs, outpath, created>>
       \/ /\ ~ApplyModeOk(mode[t])
          /\ Raise(t, "PrinterPalError") /\ UNCHANGED <<fs, outpath, created>>
       \/ /\ ApplyModeOk(mode[t])
          /\ \/ \E name \in TempNames : MkStemp(t, name)
             \/ Raise(t, "OSError") /\ UNCHANGED <<fs, outpath, created>>
    /\ UNCHANGED <<airRest, req, resp, src, mode, copies, maxp, pages, page_i,
                   prepared_path, prepared, tmp_out, file_path, job_id, cmds>>

\* lines 208-211 and 222-225: the bytes are written to outpath (a write may
\* fail: OSError) and (outpath, prepared=True) returned
PrepWrite(t) ==
    /\ pc[t] = "pp_write"
    /\ \/ PrepReturn(t, outpath[t], TRUE)
       \/ Raise(t, "OSError") /\ UNCHANGED <<prepared_path, prepared, tmp_out, file_path>>
    /\ UNCHANGED <<airRest, req, resp, fs, src, mode, copies, maxp, pages, page_i,
                   outpath, job_id, cmds, created>>

\* ------------------------------------------------------------- print_file

\* the whole function: the two checks, then one run_cmd of lp; a CommandError
\* is raised again as PrinterPalError
PrintFile(t) ==
    /\ pc[t] = "pf_enter"
    /\ IF file_path[t] \notin fs \/ ~CopiesInRange(copies[t])
       THEN Raise(t, "PrinterPalError") /\ UNCHANGED cmds
       ELSE /\ RunCmd(t, "lp", 0)
            /\ \E out \in CmdOutcomes :
                IF out = "ok"
                THEN /\ pc' = [pc EXCEPT ![t] =
                                IF req[t] = "print" THEN "pr_finally" ELSE "done"]
                     /\ UNCHANGED exc
                ELSE Raise(t, "PrinterPalError")
    /\ UNCHANGED <<airRest, req, resp, fs, src, mode, copies, maxp, pages, page_i,
                   outpath, prepared_path, prepared, tmp_out, file_path, job_id,
                   created>>

\* -------------------------------------------------------------- cancel_job

CancelJob(t) ==
    /\ pc[t] = "cj_enter"
    /\ IF job_id[t] = <<>> \/ ~ReMatchSafe(job_id[t])
       THEN Raise(t, "PrinterPalError") /\ UNCHANGED cmds
       ELSE /\ RunCmd(t, "cancel", 0)
            /\ \E out \in CmdOutcomes :
                IF out = "ok"
                THEN pc' = [pc EXCEPT ![t] = "done"] /\ UNCHANGED exc
                ELSE Raise(t, out)
    /\ UNCHANGED <<airRest, req, resp, fs, src, mode, copies, maxp, pages, page_i,
                   outpath, prepared_path, prepared, tmp_out, file_path, job_id,
                   created>>

\* --------------------------------------------------------- POST /api/print

\* the configurations a print server is started with
PrintConfigs ==
    { [DefaultConfig EXCEPT !.max_pdf_pages_process = 2],
      [DefaultConfig EXCEPT !.max_pdf_pages_process = 1, !.default_mode = "raw",
                            !.require_token = TRUE, !.token = <<"a">>] }

\* @require_token, then lines 300-315: the body is read and the file looked up
PrintStart(t) ==
    /\ pc[t] = "idle"
    /\ \E header \in {None, <<"a">>}, filename \in Uploads \cup {Missing, ""},
          m \in ModeInputs, c \in CopiesInputs :
        LET a == RequireToken(cfg.require_token, cfg.token, header, None)
            \* str(payload.get("mode") or default).strip().lower()
            mode1 == Lower(IF m = "" THEN cfg.default_mode ELSE m)
            \* int(payload.get("copies") or default)
            copies1 == IF c = 0 THEN cfg.default_copies ELSE c
            answer == IF a # "run" THEN a
                      ELSE IF filename = "" THEN "400"
                      ELSE IF filename \notin fs THEN "404"
                      ELSE "none"
        IN  /\ resp' = [resp EXCEPT ![t] = answer]
            /\ IF answer = "none"
               THEN /\ pc' = [pc EXCEPT ![t] = "pp_enter"]
                    /\ req' = [req EXCEPT ![t] = "print"]
                    /\ FreshLocals(t, filename, mode1, copies1,
                                   cfg.max_pdf_pages_process, NoPath, <<>>)
               ELSE /\ UNCHANGED <<pc, req>>
                    /\ FreshLocals(t, NoPath, "", 0, 0, NoPath, <<>>)
    /\ UNCHANGED <<airRest, fs>>

\* lines 339-344: finally: the prepared file is removed
PrintFinally(t) ==
    /\ pc[t] = "pr_finally"
    /\ fs' = IF tmp_out[t] # NoPath /\ tmp_out[t] \in fs THEN fs \ {tmp_out[t]} ELSE fs
    /\ pc' = [pc EXCEPT ![t] = "pr_respond"]
    /\ UNCHANGED <<airRest, req, resp, printLocals>>

\* line 338 or 346, or the 500 of an exception no handler caught
PrintRespond(t) ==
    /\ pc[t] = "pr_respond"
    /\ resp' = [resp EXCEPT ![t] = IF exc[t] = "none" THEN "200" ELSE "500"]
    /\ pc' = [pc EXCEPT ![t] = "idle"]
    /\ req' = [req EXCEPT ![t] = "none"]
    /\ FreshLocals(t, NoPath, "", 0, 0, NoPath, <<>>)
    /\ UNCHANGED <<airRest, fs>>

\* ------------------------------------------------ direct calls of the library

\* prepare_print_file(src_path, mode=, max_pdf_pages=) is called
CallPrepare(t) ==
    /\ pc[t] = "idle"
    /\ req' = [req EXCEPT ![t] = "call:prepare"]
    /\ pc' = [pc EXCEPT ![t] = "pp_enter"]
    /\ \E s \in Uploads \cup TempNames \cup {Missing}, m \in ModeInputs,
          mp \in MaxPagesInputs :
        FreshLocals(t, s, m, 0, mp, NoPath, <<>>)
    /\ UNCHANGED <<airRest, resp, fs>>

\* print_file(file_path, copies=) is called
CallPrintFile(t) ==
    /\ pc[t] = "idle"
    /\ req' = [req EXCEPT ![t] = "call:print_file"]
    /\ pc' = [pc EXCEPT ![t] = "pf_enter"]
    /\ \E f \in Uploads \cup {Missing}, c \in CopiesInputs :
        FreshLocals(t, NoPath, "", c, 0, f, <<>>)
    /\ UNCHANGED <<airRest, resp, fs>>

\* cancel_job(job_id) is called
CallCancel(t) ==
    /\ pc[t] = "idle"
    /\ req' = [req EXCEPT ![t] = "call:cancel"]
    /\ pc' = [pc EXCEPT ![t] = "cj_enter"]
    /\ \E j \in JobIds : FreshLocals(t, NoPath, "", 0, 0, NoPath, j)
    /\ UNCHANGED <<airRest, resp, fs>>

\* the caller has the result and goes on
CallDone(t) ==
    /\ pc[t] = "done"
    /\ pc' = [pc EXCEPT ![t] = "idle"]
    /\ req' = [req EXCEPT ![t] = "none"]
    /\ FreshLocals(t, NoPath, "", 0, 0, NoPath, <<>>)
    /\ UNCHANGED <<airRest, resp, fs>>

\* ------------------------------------- the object app.config["PP_CFG"] holds

\* dict objects are allocated up to this many
MaxObjs == 5

\* the object create_app stored
FirstObj == 1

\* the keys in the order merge() goes through src.items() (json.dump sorts them)
KeyOrder ==
    <<"auto_enable", "max_upload_mb", "default_copies", "default_mode",
      "max_pdf_pages_process", "require_token", "token">>

\* the fields api_print reads from its cfg, in the order it reads them
ReadOrder == <<"default_mode", "default_copies", "max_pdf_pages_process">>

\* the bodies POST /api/config is sent while requests read the configuration
ObjPayloads ==
    { [default_mode |-> "bw", default_copies |-> 2, max_pdf_pages_process |-> 5],
      [default_mode |-> "raw", default_copies |-> 3],
      [default_mode |-> "outline", default_copies |-> 0] }

\* nothing read yet
NoneSeen == [k \in {} |-> 0]

VARIABLES
    heap,       \* the dict objects: what each holds now
    pp_cfg,     \* app.config["PP_CFG"]: the object it refers to
    next_obj,   \* the objects allocated so far
    published,  \* what the objects PP_CFG referred to held when they were stored
    obj_pc,     \* a thread's position in api_config_set or in a reading handler
    obj_src,    \* validate_config: cfg, the dict merged over the defaults
    obj_ref,    \* validate_config: merged; a reader: its cfg
    obj_i,      \* merge: the key reached; a reader: the field reached
    rd_seen,    \* a reader: the fields it has read
    rd_snap     \* a reader: what its cfg held when it took it

objVars == <<heap, pp_cfg, next_obj, published, obj_pc, obj_src, obj_ref, obj_i,
             rd_seen, rd_snap>>

InitObj ==
    /\ heap = [o \in {FirstObj} |-> DefaultConfig]
    /\ pp_cfg = FirstObj
    /\ next_obj = FirstObj
    /\ published = {DefaultConfig}
    /\ obj_pc = [t \in Threads |-> "idle"]
    /\ obj_src = [t \in Threads |-> NoneSeen]
    /\ obj_ref = [t \in Threads |-> 0]
    /\ obj_i = [t \in Threads |-> 0]
    /\ rd_seen = [t \in Threads |-> NoneSeen]
    /\ rd_snap = [t \in Threads |-> NoneSeen]

\* the locals of a finished handler are dropped
ObjReset(t) ==
    /\ obj_pc' = [obj_pc EXCEPT ![t] = "idle"]
    /\ obj_src' = [obj_src EXCEPT ![t] = NoneSeen]
    /\ obj_ref' = [obj_ref EXCEPT ![t] = 0]
    /\ obj_i' = [obj_i EXCEPT ![t] = 0]

\* validate_config working on the dict the application holds
MergedInPlace(fresh, current) == current

\* merged = deepcopy(base): a new dict, which no other reference leads to
Merged(fresh, current) == fresh

\* the handler a validate_config call belongs to goes on with what follows it
AfterValidate(phase) == IF phase = "save" THEN "o_write" ELSE "o_set"

\* lines 251-257 of api_config_set, then store.save(cfg_new) calls validate_config
ObjConfigStart(t) ==
    /\ obj_pc[t] = "idle"
    /\ next_obj + 2 <= MaxObjs
    /\ \E body \in ObjPayloads : obj_src' = [obj_src EXCEPT ![t] = body]
    /\ obj_pc' = [obj_pc EXCEPT ![t] = "v_new:save"]
    /\ UNCHANGED <<heap, pp_cfg, next_obj, published, obj_ref, obj_i, rd_seen,
                   rd_snap, cfgFile>>

\* validate_config lines 57-58: base = _default_config(); merged = deepcopy(base)
ValidateNew(t, phase) ==
    /\ obj_pc[t] = "v_new:" \o phase
    /\ LET o == Merged(next_obj + 1, pp_cfg)
       IN  /\ heap' = [x \in DOMAIN heap \cup {o} |-> IF x = o THEN DefaultConfig ELSE heap[x]]
           /\ obj_ref' = [obj_ref EXCEPT ![t] = o]
    /\ next_obj' = next_obj + 1
    /\ obj_i' = [obj_i EXCEPT ![t] = 1]
    /\ obj_pc' = [obj_pc EXCEPT ![t] = "v_merge:" \o phase]
    /\ UNCHANGED <<pp_cfg, published, obj_src, rd_seen, rd_snap, cfgFile>>

\* merge(), lines 60-67: dst[k] = v for one key of src
ValidateMerge(t, phase) ==
    /\ obj_pc[t] = "v_merge:" \o phase
    /\ obj_i[t] <= Len(KeyOrder)
    /\ LET k == KeyOrder[obj_i[t]]
           o == obj_ref[t]
       IN  heap' = IF k \in DOMAIN obj_src[t]
                   THEN [heap EXCEPT ![o] = [@ EXCEPT ![k] = obj_src[t][k]]]
                   ELSE heap
    /\ obj_i' = [obj_i EXCEPT ![t] = @ + 1]
    /\ obj_pc' = [obj_pc EXCEPT ![t] =
                    IF obj_i[t] = Len(KeyOrder) THEN "v_check:" \o phase ELSE @]
    /\ UNCHANGED <<pp_cfg, next_obj, published, obj_src, obj_ref, rd_seen, rd_snap,
                   cfgFile>>

\* lines 69-113: the checks; merged is returned or PrinterPalError raised, which
\* handle_pp_error answers
ValidateCheck(t, phase) ==
    /\ obj_pc[t] = "v_check:" \o phase
    /\ IF ValidConfig(heap[obj_ref[t]])
       THEN /\ obj_pc' = [obj_pc EXCEPT ![t] = AfterValidate(phase)]
            /\ UNCHANGED <<obj_src, obj_ref, obj_i>>
       ELSE ObjReset(t)
    /\ UNCHANGED <<heap, pp_cfg, next_obj, published, rd_seen, rd_snap, cfgFile>>

\* ConfigStore.save line 133: cfg2 is written; then line 260, store.load(), reads
\* the file and calls validate_config(data)
ObjConfigWrite(t) ==
    /\ obj_pc[t] = "o_write"
    /\ cfgFile' = heap[obj_ref[t]]
    /\ obj_src' = [obj_src EXCEPT ![t] = heap[obj_ref[t]]]
    /\ obj_pc' = [obj_pc EXCEPT ![t] = "v_new:load"]
    /\ UNCHANGED <<heap, pp_cfg, next_obj, published, obj_ref, obj_i, rd_seen, rd_snap>>

\* line 261: app.config["PP_CFG"] = cfg
ObjConfigSet(t) ==
    /\ obj_pc[t] = "o_set"
    /\ pp_cfg' = obj_ref[t]
    /\ published' = published \cup {heap[obj_ref[t]]}
    /\ ObjReset(t)
    /\ UNCHANGED <<heap, next_obj, rd_seen, rd_snap, cfgFile>>

\* a handler starts with cfg = app.config["PP_CFG"] (api_print, line 300)
ObjReaderTake(t) ==
    /\ obj_pc[t] = "idle"
    /\ obj_ref' = [obj_ref EXCEPT ![t] = pp_cfg]
    /\ rd_snap' = [rd_snap EXCEPT ![t] = heap[pp_cfg]]
    /\ rd_seen' = [rd_seen EXCEPT ![t] = NoneSeen]
    /\ obj_i' = [obj_i EXCEPT ![t] = 1]
    /\ obj_pc' = [obj_pc EXCEPT ![t] = "rd_get"]
    /\ UNCHANGED <<heap, pp_cfg, next_obj, published, obj_src, cfgFile>>

\* it reads one field of its cfg (lines 309, 311, 322)
ObjReaderGet(t) ==
    /\ obj_pc[t] = "rd_get"
    /\ obj_i[t] <= Len(ReadOrder)
    /\ LET k == ReadOrder[obj_i[t]]
       IN  rd_seen' = [rd_seen EXCEPT ![t] =
                [f \in DOMAIN @ \cup {k} |-> IF f = k THEN heap[obj_ref[t]][k] ELSE @[f]]]
    /\ obj_i' = [obj_i EXCEPT ![t] = @ + 1]
    /\ obj_pc' = [obj_pc EXCEPT ![t] = IF obj_i[t] = Len(ReadOrder) THEN "rd_done" ELSE @]
    /\ UNCHANGED <<heap, pp_cfg, next_obj, published, obj_src, obj_ref, rd_snap, cfgFile>>

\* the handler has answered
ObjReaderDone(t) ==
    /\ obj_pc[t] = "rd_done"
    /\ ObjReset(t)
    /\ rd_seen' = [rd_seen EXCEPT ![t] = NoneSeen]
    /\ rd_snap' = [rd_snap EXCEPT ![t] = NoneSeen]
    /\ UNCHANGED <<heap, pp_cfg, next_obj, published, cfgFile>>

\* what the handlers of this section leave alone
objFrame ==
    <<cfg, max_content, last_ensure, last_sig, lock, inflight, envVars, statusLocals,
      cfg_new, pc, req, resp>>

\* ------------------------------------------------------- atomic_write_json

\* files (inodes) are created up to this many
MaxInodes == 3

\* the validated configurations ConfigStore.save is called with
SaveConfigs ==
    { DefaultConfig,
      [DefaultConfig EXCEPT !.token = <<"a">>],
      [DefaultConfig EXCEPT !.default_copies = 2] }

\* json.dump(obj, f, indent=2, sort_keys=True); f.write("\n"): the text in pieces,
\* the characters of the token each a piece of their own
Serialize(c) == <<[c EXCEPT !.token = <<>>]>> \o c.token \o <<"\n">>

\* write(data) at offset 0 of a file that holds old
WriteAt0(old, data) ==
    IF Len(data) >= Len(old) THEN data
    ELSE data \o SubSeq(old, Len(data) + 1, Len(old))

\* no file of that name
Absent == 0

\* the file config.json names when the server has started
FirstInode == 1

VARIABLES
    ino_data,   \* the text each file holds
    tmp_ino,    \* the file the name config.json.tmp leads to, or Absent
    cfg_ino,    \* the file the name config.json leads to
    next_ino,   \* the files created so far
    saved,      \* the configurations a save has been called with
    sv_pc,      \* a thread's position in atomic_write_json
    sv_obj,     \* atomic_write_json: obj
    sv_fd       \* atomic_write_json: f, the file it has open

saveVars == <<ino_data, tmp_ino, cfg_ino, next_ino, saved, sv_pc, sv_obj, sv_fd>>

InitSave ==
    /\ ino_data = [i \in {FirstInode} |-> Serialize(DefaultConfig)]
    /\ tmp_ino = Absent
    /\ cfg_ino = FirstInode
    /\ next_ino = FirstInode
    /\ saved = {DefaultConfig}
    /\ sv_pc = [t \in Threads |-> "idle"]
    /\ sv_obj = [t \in Threads |-> DefaultConfig]
    /\ sv_fd = [t \in Threads |-> Absent]

\* the call is over: it returned, or an OSError left it
SaveReset(t) ==
    /\ sv_pc' = [sv_pc EXCEPT ![t] = "idle"]
    /\ sv_obj' = [sv_obj EXCEPT ![t] = DefaultConfig]
    /\ sv_fd' = [sv_fd EXCEPT ![t] = Absent]

\* ConfigStore.save: cfg2 = validate_config(cfg); atomic_write_json(self.path, cfg2)
SaveStart(t) ==
    /\ sv_pc[t] = "idle"
    /\ \E c \in SaveConfigs :
        /\ sv_obj' = [sv_obj EXCEPT ![t] = c]
        /\ saved' = saved \cup {c}
    /\ sv_pc' = [sv_pc EXCEPT ![t] = "sv_open"]
    /\ UNCHANGED <<ino_data, tmp_ino, cfg_ino, next_ino, sv_fd>>

\* line 92: open(tmp, "w") truncates the file of that name, or creates one
SaveOpen(t) ==
    /\ sv_pc[t] = "sv_open"
    /\ IF tmp_ino # Absent
       THEN /\ ino_data' = [ino_data EXCEPT ![tmp_ino] = <<>>]
            /\ sv_fd' = [sv_fd EXCEPT ![t] = tmp_ino]
            /\ UNCHANGED <<tmp_ino, next_ino>>
       ELSE /\ next_ino < MaxInodes
            /\ ino_data' = [i \in DOMAIN ino_data \cup {next_ino + 1} |->
                                IF i = next_ino + 1 THEN <<>> ELSE ino_data[i]]
            /\ tmp_ino' = next_ino + 1
            /\ next_ino' = next_ino + 1
            /\ sv_fd' = [sv_fd EXCEPT ![t] = next_ino + 1]
    /\ sv_pc' = [sv_pc EXCEPT ![t] = "sv_write"]
    /\ UNCHANGED <<cfg_ino, saved, sv_obj>>

\* lines 93-94 and the end of the with block: the buffered text reaches the file
\* the thread has open, from the start of the file
SaveWrite(t) ==
    /\ sv_pc[t] = "sv_write"
    /\ ino_data' = [ino_data EXCEPT ![sv_fd[t]] = WriteAt0(@, Serialize(sv_obj[t]))]
    /\ sv_pc' = [sv_pc EXCEPT ![t] = "sv_chmod"]
    /\ UNCHANGED <<tmp_ino, cfg_ino, next_ino, saved, sv_obj, sv_fd>>

\* line 95: os.chmod(tmp, mode) raises FileNotFoundError when the name is gone
SaveChmod(t) ==
    /\ sv_pc[t] = "sv_chmod"
    /\ IF tmp_ino = Absent
       THEN SaveReset(t)
       ELSE /\ sv_pc' = [sv_pc EXCEPT ![t] = "sv_replace"]
            /\ UNCHANGED <<sv_obj, sv_fd>>
    /\ UNCHANGED <<ino_data, tmp_ino, cfg_ino, next_ino, saved>>

\* line 96: os.replace(tmp, path), or FileNotFoundError when the name is gone
SaveReplace(t) ==
    /\ sv_pc[t] = "sv_replace"
    /\ IF tmp_ino = Absent
       THEN UNCHANGED <<tmp_ino, cfg_ino>>
       ELSE /\ cfg_ino' = tmp_ino
            /\ tmp_ino' = Absent
    /\ SaveReset(t)
    /\ UNCHANGED <<ino_data, next_ino, saved>>

\* ------------------------------------------------------------------ run_cmd

\* the programs the application runs
Programs == {"lp", "lpstat", "pdfinfo", "pdftoppm", "sudo"}

\* argv: empty, or a program and its arguments
ArgvInputs == {<<>>} \cup {<<p>> : p \in Programs}

\* what the system has under a program's name: nothing, a file that cannot be
\* executed, or the program
BinStates == {"missing", "unrunnable", "program"}

\* the exit codes of a child
ExitCodes == {0, 1, 2}

\* returncode of a child that has not exited
NoCode == -1

VARIABLES
    run_pc,     \* the position in run_cmd
    run_argv,   \* run_cmd: argv
    run_check,  \* run_cmd: check
    run_bin,    \* what the system has under the name argv[0]
    run_child,  \* the child process: "none", "running", "exited" or "killed"
    run_code,   \* the child's exit code
    run_text,   \* the child's output decodes as text
    run_late,   \* the timeout expired before the child exited
    run_out     \* how the call ended: the kind of value returned or raised, and
                \* the returncode of the CmdResult it carries

runVars == <<run_pc, run_argv, run_check, run_bin, run_child, run_code, run_text, run_late,
             run_out>>

NoOutcome == [kind |-> "none", returncode |-> NoCode]

InitRun ==
    /\ run_pc = "idle"
    /\ run_argv = <<>>
    /\ run_check = TRUE
    /\ run_bin = "missing"
    /\ run_child = "none"
    /\ run_code = NoCode
    /\ run_text = TRUE
    /\ run_late = FALSE
    /\ run_out = NoOutcome

\* run_cmd(argv, timeout_s=, check=) is called
RunCmdCall ==
    /\ run_pc \in {"idle", "done"}
    /\ \E a \in ArgvInputs, c \in BOOLEAN, b \in BinStates :
        /\ run_argv' = a
        /\ run_check' = c
        /\ run_bin' = IF a = <<>> THEN "missing" ELSE b
    /\ run_pc' = "rc_spawn"
    /\ run_child' = "none"
    /\ run_code' = NoCode
    /\ run_text' = TRUE
    /\ run_late' = FALSE
    /\ run_out' = NoOutcome

\* lines 50-65: subprocess.run starts the child; FileNotFoundError becomes
\* PrinterPalError, any other OSError of the start leaves run_cmd as it is
RunCmdSpawn ==
    /\ run_pc = "rc_spawn"
    /\ CASE run_argv = <<>> ->
              /\ run_out' = [kind |-> "ValueError", returncode |-> NoCode]
              /\ run_pc' = "done"
              /\ UNCHANGED run_child
         [] run_bin = "missing" ->
              /\ run_out' = [kind |-> "PrinterPalError: not found", returncode |-> NoCode]
              /\ run_pc' = "done"
              /\ UNCHANGED run_child
         [] run_bin = "unrunnable" ->
              /\ run_out' = [kind |-> "OSError", returncode |-> NoCode]
              /\ run_pc' = "done"
              /\ UNCHANGED run_child
         [] OTHER ->
              /\ run_child' = "running"
              /\ run_pc' = "rc_wait"
              /\ UNCHANGED run_out
    /\ UNCHANGED <<run_argv, run_check, run_bin, run_code, run_text, run_late>>

\* lines 55-67: the child exits in time and its output is decoded (text=True), or
\* the timeout expires: subprocess.run kills the child, waits for it and raises
\* TimeoutExpired, which becomes PrinterPalError
RunCmdWait ==
    /\ run_pc = "rc_wait"
    /\ \/ \E code \in ExitCodes, decodes \in BOOLEAN :
            /\ run_child' = "exited"
            /\ run_code' = code
            /\ run_text' = decodes
            /\ run_late' = FALSE
            /\ IF decodes
               THEN run_pc' = "rc_result" /\ UNCHANGED run_out
               ELSE /\ run_out' = [kind |-> "UnicodeDecodeError", returncode |-> NoCode]
                    /\ run_pc' = "done"
       \/ /\ run_child' = "killed"
          /\ run_late' = TRUE
          /\ run_out' = [kind |-> "PrinterPalError: timed out", returncode |-> NoCode]
          /\ run_pc' = "done"
          /\ UNCHANGED <<run_code, run_text>>
    /\ UNCHANGED <<run_argv, run_check, run_bin>>

\* lines 69-84: res is built; CommandError(result=res) when check and the exit
\* code is not 0, else res is returned
RunCmdResult ==
    /\ run_pc = "rc_result"
    /\ run_out' = [kind |-> IF run_check /\ run_code # 0 THEN "CommandError" ELSE "CmdResult",
                   returncode |-> run_code]
    /\ run_pc' = "done"
    /\ UNCHANGED <<run_argv, run_check, run_bin, run_child, run_code, run_text, run_late>>

\* ------------------------------------------------------- render_preview_png

\* the widths a preview is requested with, and the sizes of the image after
\* apply_mode
WidthInputs == {0, 63, 64, 65, 83, 300, 2000, 2001, 5000}
W0Inputs == {0, 1, 64, 98, 131, 1000, 3000}
H0Inputs == {0, 1, 750}

\* the bounds of line 120
MinWidth == 64
MaxWidth == 2000

\* the pairs <<d0, width>> of the inputs for which the binary64 product
\* d0 * (float(width) / float(d0)) comes out below width
RoundsBelow == {<<98, 64>>, <<131, 83>>}

\* int(d0 * scale), where scale = min(1.0, float(width) / float(w0))
Scaled(d0, width, w0) ==
    IF width >= w0 THEN d0
    ELSE IF d0 = w0 /\ <<d0, width>> \in RoundsBelow THEN width - 1
    ELSE (d0 * width) \div w0

Max(a, b) == IF a >= b THEN a ELSE b

\* render_preview_png: "ok" and the size of the image returned, or the error
RenderPreview(path, m, width, w0, h0) ==
    IF width < MinWidth \/ width > MaxWidth
    THEN [kind |-> "PrinterPalError: width", w |-> 0, h |-> 0]
    ELSE IF ExtOf(path) # ".pdf" /\ ExtOf(path) \notin SUPPORTED_IMAGE_EXTS
    THEN [kind |-> "PrinterPalError: format", w |-> 0, h |-> 0]
    ELSE IF ~ApplyModeOk(m)
    THEN [kind |-> "PrinterPalError: mode", w |-> 0, h |-> 0]
    ELSE IF w0 <= 0 \/ h0 <= 0
    THEN [kind |-> "PrinterPalError: dimensions", w |-> 0, h |-> 0]
    ELSE [kind |-> "ok", w |-> Max(1, Scaled(w0, width, w0)),
          h |-> Max(1, Scaled(h0, width, w0))]

VARIABLES
    pv_path,    \* render_preview_png: path
    pv_mode,    \* render_preview_png: mode
    pv_width,   \* render_preview_png: width
    pv_size,    \* im2.size after apply_mode: <<w0, h0>>
    pv_result   \* what the call returned or raised

prevVars == <<pv_path, pv_mode, pv_width, pv_size, pv_result>>

InitPreview ==
    /\ pv_path = NoPath
    /\ pv_mode = ""
    /\ pv_width = 0
    /\ pv_size = <<0, 0>>
    /\ pv_result = [kind |-> "none", w |-> 0, h |-> 0]

\* render_preview_png(path, mode=, page=, width=, ...) returns or raises
PreviewCall ==
    /\ pv_result.kind = "none"
    /\ pv_result' = RenderPreview(pv_path, pv_mode, pv_width, pv_size[1], pv_size[2])
    /\ UNCHANGED <<pv_path, pv_mode, pv_width, pv_size>>

\* --------------------------------------------- validate_config, value by value

\* JSON values: the type, and the number (whole part and tenths) or the string
\* (its text and its length) a value of that type is
JInt(n) == [t |-> "int", n |-> n, f |-> 0, s |-> ""]
JFloat(n, tenths) == [t |-> "float", n |-> n, f |-> tenths, s |-> ""]
JBool(b) == [t |-> "bool", n |-> IF b THEN 1 ELSE 0, f |-> 0, s |-> ""]
JStr(text, length) == [t |-> "str", n |-> length, f |-> 0, s |-> text]

\* the key is not in the object
JAbsent == [t |-> "absent", n |-> 0, f |-> 0, s |-> ""]

\* secrets.token_hex(32) returns one of these
SecretKeys == {JStr("5f1c", 64), JStr("e07a", 64)}

\* _default_config(), with the value secrets.token_hex(32) returned
default_config(key) ==
    [port |-> JInt(80), max_upload_mb |-> JInt(25), secret_key |-> key,
     default_copies |-> JInt(1), default_mode |-> JStr("grayscale", 9),
     auto_enable |-> JBool(TRUE), token |-> JStr("", 0)]

\* merge() with the defaults kept where both have the key
merge_keep(dst, from) ==
    [k \in DOMAIN dst \cup DOMAIN from |-> IF k \in DOMAIN dst THEN dst[k] ELSE from[k]]

\* merge(dst, src): every value of src is put over dst
merge(dst, from) ==
    [k \in DOMAIN dst \cup DOMAIN from |-> IF k \in DOMAIN from THEN from[k] ELSE dst[k]]

\* _as_int: whether it returns, and int(v)
as_int_ok(v, min_v, max_v) == v.t \in {"int", "float"} /\ v.n >= min_v /\ v.n <= max_v

as_int(v) == JInt(v.n)

\* validate_config: the checks of lines 69-111
validates(merged) ==
    /\ as_int_ok(merged.port, 1, 65535)
    /\ as_int_ok(merged.max_upload_mb, 1, 500)
    /\ merged.secret_key.t = "str" /\ merged.secret_key.n >= 16
    /\ as_int_ok(merged.default_copies, 1, 99)
    /\ merged.default_mode.t = "str" /\ merged.default_mode.s \in SupportedModes
    /\ merged.auto_enable.t = "bool"
    /\ merged.token.t = "str"

\* validate_config(cfg): the dict returned, or the error raised
validate_config(x, key) ==
    LET merged == merge(default_config(key), x)
    IN  IF validates(merged)
        THEN [ok |-> TRUE,
              cfg |-> [merged EXCEPT !.port = as_int(@), !.max_upload_mb = as_int(@),
                                     !.default_copies = as_int(@)]]
        ELSE [ok |-> FALSE, cfg |-> x]

\* json.dump: a number is written with a decimal point exactly when it is a
\* float, a bool as true or false, a str in quotes
json_dump_value(v) ==
    CASE v.t = "int" -> [lit |-> "number", point |-> FALSE, n |-> v.n, f |-> 0, s |-> ""]
      [] v.t = "float" -> [lit |-> "number", point |-> TRUE, n |-> v.n, f |-> v.f, s |-> ""]
      [] v.t = "bool" -> [lit |-> IF v.n = 1 THEN "true" ELSE "false", point |-> FALSE,
                          n |-> 0, f |-> 0, s |-> ""]
      [] OTHER -> [lit |-> "string", point |-> FALSE, n |-> v.n, f |-> 0, s |-> v.s]

\* json.load: a number with a decimal point is a float, one without an int
json_load_value(tok) ==
    CASE tok.lit = "number" /\ ~tok.point -> JInt(tok.n)
      [] tok.lit = "number" /\ tok.point -> JFloat(tok.n, tok.f)
      [] tok.lit = "true" -> JBool(TRUE)
      [] tok.lit = "false" -> JBool(FALSE)
      [] OTHER -> JStr(tok.s, tok.n)

json_dump(obj) == [k \in DOMAIN obj |-> json_dump_value(obj[k])]

json_load(text) == [k \in DOMAIN text |-> json_load_value(text[k])]

\* the values a request gives each key, JAbsent when it leaves the key out
PortInputs == {JAbsent, JInt(8080), JFloat(8080, 5), JInt(0), JBool(TRUE)}
UploadMbInputs == {JAbsent, JFloat(25, 0)}
SecretInputs == {JAbsent, JStr("c3d9", 32), JStr("abc", 3)}
DefaultCopiesInputs == {JAbsent, JInt(99), JInt(100)}
DefaultModeInputs == {JAbsent, JStr("bw", 2), JStr("foo", 3)}
AutoEnableInputs == {JAbsent, JBool(FALSE), JInt(1)}
ExtraInputs == {JAbsent, JFloat(1, 5)}

\* the object with the keys that are given
Given(full) ==
    [k \in {j \in DOMAIN full : full[j] # JAbsent} |-> full[k]]

\* the objects validate_config is given
ValInputs ==
    { Given([port |-> p, max_upload_mb |-> u, secret_key |-> sk, default_copies |-> dc,
             default_mode |-> dm, auto_enable |-> ae, extra |-> ex]) :
        p \in PortInputs, u \in UploadMbInputs, sk \in SecretInputs,
        dc \in DefaultCopiesInputs, dm \in DefaultModeInputs, ae \in AutoEnableInputs,
        ex \in ExtraInputs }

VARIABLES
    val_pc,     \* "input", "validated" or "done"
    val_x,      \* the input object
    val_y,      \* validate_config(x)
    val_z       \* validate_config(json.load(json.dump(validate_config(x))))

valVars == <<val_pc, val_x, val_y, val_z>>

NoResult == [ok |-> FALSE, cfg |-> [k \in {} |-> JAbsent]]

InitVal ==
    /\ val_pc = "input"
    /\ val_x = [k \in {} |-> JAbsent]
    /\ val_y = NoResult
    /\ val_z = NoResult

\* validate_config(x) is called
ValidateInput ==
    /\ val_pc = "input"
    /\ \E key \in SecretKeys : val_y' = validate_config(val_x, key)
    /\ val_pc' = "validated"
    /\ UNCHANGED <<val_x, val_z>>

\* what it returned is written as JSON, read back and validated again
ValidateAgain ==
    /\ val_pc = "validated"
    /\ val_y.ok
    /\ \E key \in SecretKeys :
        val_z' = validate_config(json_load(json_dump(val_y.cfg)), key)
    /\ val_pc' = "done"
    /\ UNCHANGED <<val_x, val_y>>

\* ------------------------------------------------------------- POST /upload

\* time.time() is followed up to this many seconds
MaxWall == 2

\* a file name: its base, the timestamps appended to the base, its extension
FileName(base, stamps, ext) == [base |-> base, stamps |-> stamps, ext |-> ext]

\* secure_filename(file.filename) of the uploads that arrive ("" for a name
\* nothing is left of)
UploadNames ==
    { FileName("report", <<>>, ".pdf"), FileName("photo", <<>>, ".png"),
      FileName("setup", <<>>, ".exe"), FileName("", <<>>, "") }

ALLOWED_EXTS == {".pdf"} \cup SUPPORTED_IMAGE_EXTS

\* _allowed_filename
AllowedFilename(name) == name.ext \in ALLOWED_EXTS

\* f"{base}_{int(time.time())}{ext}"
Stamped(name, seconds) == [name EXCEPT !.stamps = Append(@, seconds)]

VARIABLES
    up_dir,     \* the names of the files in UPLOAD_DIR
    wall,       \* int(time.time())
    up_pc,      \* a thread's position in upload()
    up_name,    \* upload: filename
    up_out,     \* upload: outname
    up_resp     \* the answer to the thread's last upload

upVars == <<up_dir, wall, up_pc, up_name, up_out, up_resp>>

NoName == FileName("", <<>>, "")

InitUpload ==
    /\ up_dir = {}
    /\ wall = 0
    /\ up_pc = [t \in Threads |-> "idle"]
    /\ up_name = [t \in Threads |-> NoName]
    /\ up_out = [t \in Threads |-> NoName]
    /\ up_resp = [t \in Threads |-> "none"]

\* a second passes
WallTick ==
    /\ wall < MaxWall
    /\ wall' = wall + 1
    /\ UNCHANGED <<up_dir, up_pc, up_name, up_out, up_resp>>

\* lines 165-174: the upload arrives; an empty name is answered 400, an
\* extension that is not allowed 415
UploadStart(t) ==
    /\ up_pc[t] = "idle"
    /\ \E name \in UploadNames :
        IF name = NoName \/ ~AllowedFilename(name)
        THEN /\ up_resp' = [up_resp EXCEPT ![t] = IF name = NoName THEN "400" ELSE "415"]
             /\ UNCHANGED <<up_pc, up_name>>
        ELSE /\ up_name' = [up_name EXCEPT ![t] = name]
             /\ up_pc' = [up_pc EXCEPT ![t] = "up_exists"]
             /\ up_resp' = [up_resp EXCEPT ![t] = "none"]
    /\ UNCHANGED <<up_dir, wall, up_out>>

\* lines 177-182: outname is the filename, or the filename with the second of
\* the clock when a file of that name exists
UploadExists(t) ==
    /\ up_pc[t] = "up_exists"
    /\ up_out' = [up_out EXCEPT ![t] =
                    IF up_name[t] \in up_dir THEN Stamped(up_name[t], wall) ELSE up_name[t]]
    /\ up_pc' = [up_pc EXCEPT ![t] = "up_save"]
    /\ UNCHANGED <<up_dir, wall, up_name, up_resp>>

\* lines 184-185: file.save(outpath) opens outpath for writing, then the redirect
UploadSave(t) ==
    /\ up_pc[t] = "up_save"
    /\ up_dir' = up_dir \cup {up_out[t]}
    /\ up_resp' = [up_resp EXCEPT ![t] = "302"]
    /\ up_pc' = [up_pc EXCEPT ![t] = "idle"]
    /\ up_name' = [up_name EXCEPT ![t] = NoName]
    /\ up_out' = [up_out EXCEPT ![t] = NoName]
    /\ UNCHANGED wall

\* ------------------------------------------------------------- all variables

\* the variables of the sections above that follow one function or handler
extVars == <<objVars, saveVars, runVars, prevVars, valVars, upVars>>

vars == <<airVars, printVars, authVars, extVars>>

InitExt == InitObj /\ InitSave /\ InitRun /\ InitPreview /\ InitVal /\ InitUpload

\* --------------------------------------------------------- specifications

InitAuthLocals == hdr = None /\ qry = None /\ verdict = "none"

Init ==
    InitAir(DefaultConfig) /\ InitPrintLocals /\ fs = Uploads /\ InitAuthLocals /\ InitExt

\* the server under status queries, forced ensures and configuration updates
Next ==
    \/ Tick /\ UNCHANGED <<printVars, authVars, extVars>>
    \/ PrintersChange /\ UNCHANGED <<printVars, authVars, extVars>>
    \/ \E t \in Threads : StatusStart(t) /\ UNCHANGED <<printVars, authVars, extVars>>
    \/ \E t \in Threads : StatusBegin(t) /\ UNCHANGED <<printVars, authVars, extVars>>
    \/ \E t \in Threads : StatusReadLast(t) /\ UNCHANGED <<printVars, authVars, extVars>>
    \/ \E t \in Threads : StatusDecide(t) /\ UNCHANGED <<printVars, authVars, extVars>>
    \/ \E t \in Threads : StatusTryLock(t) /\ UNCHANGED <<printVars, authVars, extVars>>
    \/ \E t \in Threads : StatusRecordTime(t) /\ UNCHANGED <<printVars, authVars, extVars>>
    \/ \E t \in Threads : StatusRecordSig(t) /\ UNCHANGED <<printVars, authVars, extVars>>
    \/ \E t \in Threads : StatusRelease(t) /\ UNCHANGED <<printVars, authVars, extVars>>
    \/ \E t \in Threads : StatusRespond(t) /\ UNCHANGED <<printVars, authVars, extVars>>
    \/ \E t \in Threads : EnsureCall(t) /\ UNCHANGED <<printVars, authVars, extVars>>
    \/ \E t \in Threads : EnsureReturn(t) /\ UNCHANGED <<printVars, authVars, extVars>>
    \/ \E t \in Threads : AirprintEnsureStart(t) /\ UNCHANGED <<printVars, authVars, extVars>>
    \/ \E t \in Threads : ConfigStart(t, CfgPayloads) /\ UNCHANGED <<printVars, authVars, extVars>>
    \/ \E t \in Threads : ConfigSave(t) /\ UNCHANGED <<printVars, authVars, extVars>>
    \/ \E t \in Threads : ConfigLoad(t) /\ UNCHANGED <<printVars, authVars, extVars>>
    \/ \E t \in Threads : ConfigSet(t) /\ UNCHANGED <<printVars, authVars, extVars>>
    \/ \E t \in Threads : ConfigSetMax(t) /\ UNCHANGED <<printVars, authVars, extVars>>

Spec == Init /\ [][Next]_vars

\* the thread of the specifications that follow one request or call at a time
Caller == "t1"

\* the server under print requests
InitPrint ==
    /\ \E c \in PrintConfigs : InitAir(c)
    /\ InitPrintLocals
    /\ InitAuthLocals
    /\ fs = Uploads
    /\ InitExt

\* one print request at a time: requests share nothing but the disk, where
\* mkstemp gives each its own file
NextPrint ==
    \/ PrintStart(Caller) /\ UNCHANGED <<authVars, extVars>>
    \/ PrepEnter(Caller) /\ UNCHANGED <<authVars, extVars>>
    \/ PrepPdfInfo(Caller) /\ UNCHANGED <<authVars, extVars>>
    \/ PrepRaster(Caller) /\ UNCHANGED <<authVars, extVars>>
    \/ PrepAssemble(Caller) /\ UNCHANGED <<authVars, extVars>>
    \/ PrepImage(Caller) /\ UNCHANGED <<authVars, extVars>>
    \/ PrepWrite(Caller) /\ UNCHANGED <<authVars, extVars>>
    \/ PrintFile(Caller) /\ UNCHANGED <<authVars, extVars>>
    \/ PrintFinally(Caller) /\ UNCHANGED <<authVars, extVars>>
    \/ PrintRespond(Caller) /\ UNCHANGED <<authVars, extVars>>

SpecPrint == InitPrint /\ [][NextPrint]_vars

\* the library functions called directly, one call at a time
InitLib ==
    /\ InitAir(DefaultConfig)
    /\ InitPrintLocals
    /\ InitAuthLocals
    /\ \E stale \in SUBSET {"printerpal_print_1.pdf"} : fs = Uploads \cup stale
    /\ InitExt

NextLib ==
    \/ CallPrepare(Caller) /\ UNCHANGED <<authVars, extVars>>
    \/ CallPrintFile(Caller) /\ UNCHANGED <<authVars, extVars>>
    \/ CallCancel(Caller) /\ UNCHANGED <<authVars, extVars>>
    \/ CallDone(Caller) /\ UNCHANGED <<authVars, extVars>>
    \/ PrepEnter(Caller) /\ UNCHANGED <<authVars, extVars>>
    \/ PrepPdfInfo(Caller) /\ UNCHANGED <<authVars, extVars>>
    \/ PrepRaster(Caller) /\ UNCHANGED <<authVars, extVars>>
    \/ PrepAssemble(Caller) /\ UNCHANGED <<authVars, extVars>>
    \/ PrepImage(Caller) /\ UNCHANGED <<authVars, extVars>>
    \/ PrepWrite(Caller) /\ UNCHANGED <<authVars, extVars>>
    \/ PrintFile(Caller) /\ UNCHANGED <<authVars, extVars>>
    \/ CancelJob(Caller) /\ UNCHANGED <<authVars, extVars>>

SpecLib == InitLib /\ [][NextLib]_vars


\* the server under status queries and event streams
NextEvents ==
    \/ Tick /\ UNCHANGED <<printVars, authVars, extVars>>
    \/ PrintersChange /\ UNCHANGED <<printVars, authVars, extVars>>
    \/ \E t \in Threads : StatusStart(t) /\ UNCHANGED <<printVars, authVars, extVars>>
    \/ \E t \in Threads : EventsStart(t) /\ UNCHANGED <<printVars, authVars, extVars>>
    \/ \E t \in Threads : StatusBegin(t) /\ UNCHANGED <<printVars, authVars, extVars>>
    \/ \E t \in Threads : StatusReadLast(t) /\ UNCHANGED <<printVars, authVars, extVars>>
    \/ \E t \in Threads : StatusDecide(t) /\ UNCHANGED <<printVars, authVars, extVars>>
    \/ \E t \in Threads : StatusTryLock(t) /\ UNCHANGED <<printVars, authVars, extVars>>
    \/ \E t \in Threads : EnsureCall(t) /\ UNCHANGED <<printVars, authVars, extVars>>
    \/ \E t \in Threads : EnsureReturn(t) /\ UNCHANGED <<printVars, authVars, extVars>>
    \/ \E t \in Threads : StatusRecordTime(t) /\ UNCHANGED <<printVars, authVars, extVars>>
    \/ \E t \in Threads : StatusRecordSig(t) /\ UNCHANGED <<printVars, authVars, extVars>>
    \/ \E t \in Threads : StatusRelease(t) /\ UNCHANGED <<printVars, authVars, extVars>>
    \/ \E t \in Threads : StatusRespond(t) /\ UNCHANGED <<printVars, authVars, extVars>>
    \/ \E t \in Threads : EventsSleep(t) /\ UNCHANGED <<printVars, authVars, extVars>>
    \/ \E t \in Threads : EventsClose(t) /\ UNCHANGED <<printVars, authVars, extVars>>

SpecEvents == Init /\ [][NextEvents]_vars

\* ------------------------------------------------- _require_token, applied

\* the security sections a server runs with
AuthConfigs ==
    { [DefaultConfig EXCEPT !.require_token = r, !.token = k] :
        r \in BOOLEAN, k \in CfgTokens }

\* a request reaches a token-protected endpoint (api_config_set, api_print,
\* api_airprint_ensure, api_restart_host): the wrapper runs the handler or aborts
Authorize ==
    /\ \E h \in ReqTokens, q \in ReqTokens :
        /\ hdr' = h
        /\ qry' = q
        /\ verdict' = RequireToken(cfg.require_token, cfg.token, h, q)
    /\ UNCHANGED <<airVars, printVars, extVars>>

InitAuth ==
    /\ \E c \in AuthConfigs : InitAir(c)
    /\ InitPrintLocals
    /\ InitAuthLocals
    /\ fs = Uploads
    /\ InitExt

NextAuth == Authorize

SpecAuth == InitAuth /\ [][NextAuth]_vars


\* ------------------------------------------- the configuration object, read

objOthers == <<objFrame, printVars, authVars, saveVars, runVars, prevVars, valVars, upVars>>

\* configuration updates and handlers that read their cfg field by field
NextObj ==
    \/ \E t \in Threads : ObjConfigStart(t) /\ UNCHANGED objOthers
    \/ \E t \in Threads : ValidateNew(t, "save") /\ UNCHANGED objOthers
    \/ \E t \in Threads : ValidateMerge(t, "save") /\ UNCHANGED objOthers
    \/ \E t \in Threads : ValidateCheck(t, "save") /\ UNCHANGED objOthers
    \/ \E t \in Threads : ObjConfigWrite(t) /\ UNCHANGED objOthers
    \/ \E t \in Threads : ValidateNew(t, "load") /\ UNCHANGED objOthers
    \/ \E t \in Threads : ValidateMerge(t, "load") /\ UNCHANGED objOthers
    \/ \E t \in Threads : ValidateCheck(t, "load") /\ UNCHANGED objOthers
    \/ \E t \in Threads : ObjConfigSet(t) /\ UNCHANGED objOthers
    \/ \E t \in Threads : ObjReaderTake(t) /\ UNCHANGED objOthers
    \/ \E t \in Threads : ObjReaderGet(t) /\ UNCHANGED objOthers
    \/ \E t \in Threads : ObjReaderDone(t) /\ UNCHANGED objOthers

SpecObj == Init /\ [][NextObj]_vars

\* ------------------------------------------------ the configuration file, saved

saveOthers == <<airVars, printVars, authVars, objVars, runVars, prevVars, valVars, upVars>>

\* ConfigStore.save called by the threads of the server
NextSave ==
    \/ \E t \in Threads : SaveStart(t) /\ UNCHANGED saveOthers
    \/ \E t \in Threads : SaveOpen(t) /\ UNCHANGED saveOthers
    \/ \E t \in Threads : SaveWrite(t) /\ UNCHANGED saveOthers
    \/ \E t \in Threads : SaveChmod(t) /\ UNCHANGED saveOthers
    \/ \E t \in Threads : SaveReplace(t) /\ UNCHANGED saveOthers

SpecSave == Init /\ [][NextSave]_vars

\* ---------------------------------------------------------- run_cmd, called

runOthers == <<airVars, printVars, authVars, objVars, saveVars, prevVars, valVars, upVars>>

NextRun ==
    \/ RunCmdCall /\ UNCHANGED runOthers
    \/ RunCmdSpawn /\ UNCHANGED runOthers
    \/ RunCmdWait /\ UNCHANGED runOthers
    \/ RunCmdResult /\ UNCHANGED runOthers

SpecRun == Init /\ [][NextRun]_vars

\* ----------------------------------------------- render_preview_png, called

prevOthers == <<airVars, printVars, authVars, objVars, saveVars, runVars, valVars, upVars>>

\* the calls of render_preview_png: the file, the mode, the width asked for and
\* the size of the image apply_mode returns
InitPreviewCall ==
    /\ InitAir(DefaultConfig) /\ InitPrintLocals /\ fs = Uploads /\ InitAuthLocals
    /\ InitObj /\ InitSave /\ InitRun /\ InitVal /\ InitUpload
    /\ pv_path \in Uploads
    /\ pv_mode \in {"grayscale", "raw", "foo"}
    /\ pv_width \in WidthInputs
    /\ pv_size \in W0Inputs \X H0Inputs
    /\ pv_result = [kind |-> "none", w |-> 0, h |-> 0]

NextPreview == PreviewCall /\ UNCHANGED prevOthers

SpecPreview == InitPreviewCall /\ [][NextPreview]_vars

\* -------------------------------------------------- validate_config, called

valOthers == <<airVars, printVars, authVars, objVars, saveVars, runVars, prevVars, upVars>>

InitValidate ==
    /\ InitAir(DefaultConfig) /\ InitPrintLocals /\ fs = Uploads /\ InitAuthLocals
    /\ InitObj /\ InitSave /\ InitRun /\ InitPreview /\ InitUpload
    /\ val_pc = "input"
    /\ val_x \in ValInputs
    /\ val_y = NoResult
    /\ val_z = NoResult

NextValidate ==
    \/ ValidateInput /\ UNCHANGED valOthers
    \/ ValidateAgain /\ UNCHANGED valOthers

SpecValidate == InitValidate /\ [][NextValidate]_vars

\* ------------------------------------------------------------ uploads, stored

upOthers == <<airVars, printVars, authVars, objVars, saveVars, runVars, prevVars, valVars>>

NextUpload ==
    \/ WallTick /\ UNCHANGED upOthers
    \/ \E t \in Threads : UploadStart(t) /\ UNCHANGED upOthers
    \/ \E t \in Threads : UploadExists(t) /\ UNCHANGED upOthers
    \/ \E t \in Threads : UploadSave(t) /\ UNCHANGED upOthers

SpecUpload == Init /\ [][NextUpload]_vars

\* ------------------------------------------- status queries that make progress

statusOthers == <<printVars, authVars, extVars>>

\* the steps of a status query once it has arrived
StatusStep(t) ==
    \/ StatusBegin(t) /\ UNCHANGED statusOthers
    \/ StatusReadLast(t) /\ UNCHANGED statusOthers
    \/ StatusDecide(t) /\ UNCHANGED statusOthers
    \/ StatusTryLock(t) /\ UNCHANGED statusOthers
    \/ EnsureCall(t) /\ UNCHANGED statusOthers
    \/ EnsureReturn(t) /\ UNCHANGED statusOthers
    \/ StatusRecordTime(t) /\ UNCHANGED statusOthers
    \/ StatusRecordSig(t) /\ UNCHANGED statusOthers
    \/ StatusRelease(t) /\ UNCHANGED statusOthers
    \/ StatusRespond(t) /\ UNCHANGED statusOthers

NextStatus ==
    \/ Tick /\ UNCHANGED statusOthers
    \/ PrintersChange /\ UNCHANGED statusOthers
    \/ \E t \in Threads : StatusStart(t) /\ UNCHANGED statusOthers
    \/ \E t \in Threads : StatusStep(t)

\* a thread that can take a step of its request takes it: the handler is not
\* suspended for ever, and the ensure returns or raises within its timeout
SpecStatus == Init /\ [][NextStatus]_vars /\ \A t \in Threads : WF_vars(StatusStep(t))


\* ------------------------------------------------------------------ claims

\* the pages pdftoppm was run for, in the order of the runs
RasterPages(cs) ==
    LET r == SelectSeq(cs, LAMBDA c : c.cmd = "pdftoppm")
    IN  [i \in 1..Len(r) |-> r[i].page]

\* C1: at most one invocation of ensure_airprint_via_root_helper is in flight
\* at any time, whichever requests trigger it.
C1_AtMostOneEnsureInFlight == Cardinality(inflight) <= 1

\* C2: a status query that finds the AirPrint lock held does not wait for it
\* (the acquire step can always be taken); it takes neither the lock nor the
\* ensure, goes straight on to its response, and that response is the status
\* snapshot, not an error; the ensure is not run later in the same query.
C2_BusyLockIsSkipped ==
    /\ [](\A t \in Threads : pc[t] = "st_lock" => ENABLED StatusTryLock(t))
    /\ [][\A t \in Threads :
            (pc[t] = "st_lock" /\ lock # Free /\ pc'[t] # pc[t])
                => /\ pc'[t] = "st_respond"
                   /\ skipped'[t]
                   /\ lock' = lock
                   /\ inflight' = inflight]_vars
    /\ [][\A t \in Threads :
            (skipped[t] /\ pc'[t] # pc[t])
                => /\ pc[t] = "st_respond"
                   /\ pc'[t] = "idle"
                   /\ resp'[t] = "200"
                   /\ t \notin inflight']_vars

\* a query skipped the ensure while the other thread holds the lock and runs it
C2_Witness ==
    \E t \in Threads, u \in Threads :
        /\ t # u
        /\ pc[t] = "st_respond" /\ skipped[t]
        /\ lock = u /\ u \in inflight

\* C3: a status query runs the ensure only when its printer signature differs
\* from the recorded one or more than 600 seconds passed since the recorded
\* ensure: no status query is inside the ensure with the signature that is
\* recorded and a time at most 600 seconds after the recorded time.
C3_StatusEnsureIsDue ==
    \A t \in Threads :
        (req[t] \in {"status", "events"} /\ t \in inflight)
            => (sig[t] # last_sig \/ now[t] - last_ensure > EnsurePeriod)

\* C4: when a print request is about to answer, none of the files its
\* preparation created is on disk.
C4_NoTempFileLeft ==
    \A t \in Threads : pc[t] = "pr_respond" => created[t] \cap fs = {}

\* C5: a print request with copies outside 1..99 or a mode that is none of the
\* five ends in an error and has run no command.
C5_InvalidRequestRunsNothing ==
    \A t \in Threads :
        (pc[t] = "pr_respond" /\ (copies[t] \notin 1..99 \/ mode[t] \notin SupportedModes))
            => (exc[t] # "none" /\ cmds[t] = <<>>)

\* C6: print_file with copies outside 1..99 raises PrinterPalError and runs no
\* command; with copies in 1..99 and a file that exists it runs lp, once, and
\* nothing else.
C6_PrintFileCopies ==
    \A t \in Threads :
        (pc[t] = "done" /\ req[t] = "call:print_file")
            => /\ copies[t] \notin 1..99
                    => (IsPrinterPalError(exc[t]) /\ cmds[t] = <<>>)
               /\ (copies[t] \in 1..99 /\ file_path[t] \in fs)
                    => (Len(cmds[t]) = 1 /\ cmds[t][1].cmd = "lp")

\* print_file was called with 100 copies of a file that exists, and refused
C6_Witness ==
    /\ pc[Caller] = "done" /\ req[Caller] = "call:print_file"
    /\ copies[Caller] = 100 /\ file_path[Caller] \in fs
    /\ exc[Caller] = "PrinterPalError" /\ cmds[Caller] = <<>>

\* C7: cancel_job with a job id that is empty or holds a character outside
\* letters, digits, "_", ".", "-" raises PrinterPalError and runs no command.
C7_UnsafeJobIdRejected ==
    \A t \in Threads :
        (pc[t] = "done" /\ req[t] = "call:cancel"
            /\ (job_id[t] = <<>> \/ \E i \in 1..Len(job_id[t]) : ~SafeChar(job_id[t][i])))
            => (IsPrinterPalError(exc[t]) /\ cmds[t] = <<>>)

\* prepare_print_file has ended for a PDF in a mode other than raw, and pdfinfo
\* gave a page count
PdfPrepared(t) ==
    /\ pc[t] = "done" /\ req[t] = "call:prepare"
    /\ ExtOf(src[t]) = ".pdf" /\ mode[t] # "raw"
    /\ pages[t] # NoPages

\* more pages than max_pdf_pages: PrinterPalError after pdfinfo, pdftoppm never
\* run, no file created
OverLimitRefused(t) ==
    /\ IsPrinterPalError(exc[t])
    /\ cmds[t] = <<[cmd |-> "pdfinfo", page |-> 0]>>
    /\ created[t] = {}

\* C8 as claimed: over the limit the call is refused before any pdftoppm; at
\* most at the limit pdftoppm is run exactly once per page, 1..pages in order.
C8_Original ==
    \A t \in Threads :
        PdfPrepared(t) =>
            IF pages[t] > maxp[t]
            THEN OverLimitRefused(t)
            ELSE RasterPages(cmds[t]) = [i \in 1..pages[t] |-> i]

\* C8 as amended: over the limit the call is refused before any pdftoppm; at
\* most at the limit pdftoppm is run for pages 1, 2, ... in order, each at most
\* once, up to the first page whose rendering or filter fails: for every page
\* when the call returns, and for fewer than all pages only when it raised
\* PrinterPalError.
C8_RasterUpToFirstFailure ==
    \A t \in Threads :
        PdfPrepared(t) =>
            IF pages[t] > maxp[t]
            THEN OverLimitRefused(t)
            ELSE LET r == RasterPages(cmds[t])
                 IN  /\ Len(r) <= pages[t]
                     /\ r = [i \in 1..Len(r) |-> i]
                     /\ exc[t] = "none" => Len(r) = pages[t]
                     /\ Len(r) < pages[t] => IsPrinterPalError(exc[t])

\* a PDF of more pages than the limit was refused
C8_Witness ==
    /\ PdfPrepared(Caller)
    /\ pages[Caller] > maxp[Caller]
    /\ OverLimitRefused(Caller)

Provided == IF hdr \in {None, <<>>} THEN qry ELSE hdr

\* C10 as claimed: the handler runs only if no token is required or the
\* provided token equals the configured, non-empty token.
C10_Original ==
    verdict = "run" =>
        (~cfg.require_token \/ (cfg.token # <<>> /\ Provided = cfg.token))

\* C10 as amended: the configured token counts without the whitespace around
\* it.  The handler runs exactly when no token is required, or that token is
\* not empty and the provided token equals it; a required token that is empty
\* (or only whitespace) is answered 503, a provided token that differs 401.
C10_TokenGate ==
    verdict # "none" =>
        LET expected == Strip(cfg.token)
        IN  /\ verdict = "run" <=>
                (~cfg.require_token \/ (expected # <<>> /\ Provided = expected))
            /\ (cfg.require_token /\ expected = <<>>) => verdict = "503"
            /\ (cfg.require_token /\ expected # <<>> /\ Provided # expected)
                    => verdict = "401"

\* a token is required and configured with a leading blank; the request gives
\* it as configured and is answered 401
C10_Witness ==
    /\ cfg.require_token /\ cfg.token = <<" ", "a">>
    /\ hdr = None /\ qry = <<" ", "a">>
    /\ verdict = "401"

\* C11: a handler that took its cfg from app.config reads, field after field,
\* the values of one configuration only: the complete validated configuration
\* the object held when it was stored, whatever updates run meanwhile; and
\* every configuration stored is complete and valid.
C11_ReaderSeesOneConfiguration ==
    /\ \A c \in published : DOMAIN c = DOMAIN DefaultConfig /\ ValidConfig(c)
    /\ heap[pp_cfg] \in published
    /\ \A t \in Threads :
        obj_pc[t] \in {"rd_get", "rd_done"} =>
            /\ rd_snap[t] \in published
            /\ heap[obj_ref[t]] = rd_snap[t]
            /\ \A k \in DOMAIN rd_seen[t] : rd_seen[t][k] = rd_snap[t][k]

\* a handler has read all its fields from the configuration of before an
\* update that was stored while it was reading
C11_Witness ==
    \E t \in Threads :
        /\ obj_pc[t] = "rd_done"
        /\ DOMAIN rd_seen[t] = {ReadOrder[i] : i \in 1..Len(ReadOrder)}
        /\ obj_ref[t] # pp_cfg
        /\ heap[pp_cfg] # rd_snap[t]

\* C12: at every moment the configuration file holds the complete
\* serialization of one configuration that a save was called with.
C12_FileHoldsOneSavedConfiguration ==
    \E c \in saved : ino_data[cfg_ino] = Serialize(c)

\* C13: run_cmd returns a CmdResult exactly when the program is found, exits
\* within the timeout and exits 0 or check is false, the result carrying the
\* exit code; a missing program gives the not-found error, an expired timeout
\* the timeout error with no child left running, and a non-zero exit under
\* check CommandError carrying the result.
C13_RunCmdContract ==
    run_pc = "done" =>
        LET found == run_argv # <<>> /\ run_bin # "missing"
            finished == run_child = "exited" /\ ~run_late
        IN  /\ (run_out.kind = "CmdResult")
                <=> (found /\ finished /\ (run_code = 0 \/ ~run_check))
            /\ run_out.kind = "CmdResult" => run_out.returncode = run_code
            /\ (run_argv # <<>> /\ run_bin = "missing")
                => run_out.kind = "PrinterPalError: not found"
            /\ run_late
                => run_out.kind = "PrinterPalError: timed out" /\ run_child # "running"
            /\ (finished /\ run_check /\ run_code # 0)
                => run_out.kind = "CommandError" /\ run_out.returncode = run_code

\* C14: an event stream ends only when its client closes it; a cycle emits
\* nothing before its end and one event at its end, a status event when
\* api_status returned and an error event when it raised; and after the event
\* the next cycle can start.
C14_StreamGoesOn ==
    /\ [](\A t \in Threads :
            req[t] = "events" =>
                IF pc[t] = "ev_sleep"
                THEN resp[t] \in {"event:status", "event:error"} /\ ENABLED EventsSleep(t)
                ELSE resp[t] = "none")
    /\ [][\A t \in Threads :
            (req[t] = "events" /\ req'[t] # "events") => pc[t] = "ev_sleep"]_vars
    /\ [][\A t \in Threads :
            (req[t] = "events" /\ pc[t] # "ev_sleep" /\ pc'[t] = "ev_sleep")
                => resp'[t] = IF pc[t] = "st_respond" THEN "event:status"
                              ELSE "event:error"]_vars

\* a stream has sent an error event and waits for its next cycle, while the
\* other thread's stream is in the middle of a cycle
C14_Witness ==
    \E t \in Threads, u \in Threads :
        /\ req[t] = "events" /\ pc[t] = "ev_sleep" /\ resp[t] = "event:error"
        /\ req[u] = "events" /\ pc[u] = "st_respond"

\* C15: for a readable source with a supported mode, render_preview_png
\* succeeds for every width; the width of its output is at most the width of
\* the source and is the requested width capped to [64, 2000] when that is
\* below the width of the source.
C15_WidthIsClamped ==
    ( /\ pv_result.kind # "none"
      /\ ExtOf(pv_path) \in {".pdf"} \cup SUPPORTED_IMAGE_EXTS
      /\ ApplyModeOk(pv_mode)
      /\ pv_size[1] > 0 /\ pv_size[2] > 0 )
    => LET capped == IF pv_width < MinWidth THEN MinWidth
                     ELSE IF pv_width > MaxWidth THEN MaxWidth ELSE pv_width
       IN  /\ pv_result.kind = "ok"
           /\ pv_result.w <= pv_size[1]
           /\ capped < pv_size[1] => pv_result.w = capped

\* C16: when validate_config(x) returns, validating what json.load reads from
\* its json.dump returns too, and returns an equal configuration.
C16_ValidateIsFixpoint ==
    val_pc = "done" => (val_z.ok /\ val_z.cfg = val_y.cfg)

\* an input that leaves the secret key and other fields to the defaults and
\* gives the port as a float has gone through the round trip
C16_Witness ==
    /\ val_pc = "done"
    /\ "secret_key" \notin DOMAIN val_x
    /\ "default_mode" \notin DOMAIN val_x
    /\ "port" \in DOMAIN val_x
    /\ val_x.port.t = "float"
    /\ val_y.cfg.port.t = "int"

\* C17: from the step in which the ensure of a status query raises until that
\* query releases the lock, the recorded time and signature do not change; the
\* query goes on to release the lock and to answer, and its answer is the
\* snapshot (200).
C17_FailedEnsureLeavesRecord ==
    /\ [][\A t \in Threads :
            (ensured'[t] = "raised" /\ lock = t) => UNCHANGED <<last_ensure, last_sig>>]_vars
    /\ [][\A t \in Threads :
            (ensured[t] = "raised" /\ resp'[t] # resp[t])
                => resp'[t] \in {"200", "event:status"}]_vars
    /\ [](\A t \in Threads :
            ensured[t] = "raised" => pc[t] \in {"st_release", "st_respond"})

\* the ensure of a status query has raised after the clock moved and the
\* printers changed, and the query is about to answer
C17_Witness ==
    \E t \in Threads :
        /\ ensured[t] = "raised"
        /\ pc[t] = "st_respond"
        /\ now[t] > last_ensure
        /\ sig[t] # last_sig

\* C18: the file an upload is saved under is a name no file of the upload
\* directory has.
C18_UploadNeverOverwrites ==
    [][\A t \in Threads :
        (up_pc[t] = "up_save" /\ up_pc'[t] = "idle") => up_out[t] \notin up_dir]_vars

\* C19: a thread that holds the lock releases it, whether its ensure returned
\* or raised; so the lock is free again after every attempt, and a status query
\* that reaches lock.acquire while the lock is free (no attempt under way)
\* acquires it, and then invokes the ensure.
C19_LockIsReleased ==
    /\ \A t \in Threads : (lock = t) ~> (lock = Free)
    /\ [][\A t \in Threads :
            (pc[t] = "st_lock" /\ pc'[t] # "st_lock" /\ lock = Free)
                => (lock' = t /\ pc'[t] = "ens_call")]_vars
    /\ \A t \in Threads : (pc[t] = "ens_call") ~> (t \in inflight)

\* a query has the lock and is about to invoke the ensure, after the other
\* thread's ensure raised and its lock was released
C19_Witness ==
    \E t \in Threads, u \in Threads :
        /\ lock = t /\ pc[t] = "ens_call"
        /\ ensured[u] = "raised" /\ pc[u] = "st_respond"

ConfigPcs == {"cf_save", "cf_load", "cf_set", "cf_max"}

\* C21: a POST /api/config whose body validate_config refuses is answered with
\* an error and its step changes neither PP_CFG, nor MAX_CONTENT_LENGTH, nor the
\* configuration file; and when an update has gone through (line 262 done) and
\* no other update is under way, PP_CFG is validate_config of what the file
\* holds and MAX_CONTENT_LENGTH is derived from it.
C21_UpdateKeepsMemoryAndFile ==
    /\ [][\A t \in Threads :
            ( /\ pc[t] = "cf_save" /\ pc'[t] # "cf_save"
              /\ ~ValidConfig(ValidateConfig(cfg_new[t])) )
                => (resp'[t] = "500" /\ UNCHANGED <<cfg, max_content, cfgFile>>)]_vars
    /\ [][\A t \in Threads :
            ( /\ pc[t] = "cf_max" /\ pc'[t] # "cf_max"
              /\ \A u \in Threads \ {t} : pc[u] \notin ConfigPcs )
                => ( /\ cfg' = ValidateConfig(cfgFile')
                     /\ max_content' = MaxContentLength(cfg') )]_vars

====
